---- MODULE Spec2Model ----
(***************************************************************************)
(* A model of the mirror engine of pagepull (src/pagepull.py): the crawl   *)
(* frontier, the asset worker pool, the asset registry guarded by          *)
(* asset_lock, URL canonicalisation and local-path mapping, and the        *)
(* incremental state with conditional GETs.                                *)
(*                                                                         *)
(* A URL is a record [host, path, query, frag]; a path is a record         *)
(* [segs, ext, slash] ("/d/j.png" is segs <<"d","j">>, ext ".png"); a      *)
(* local path is a record [segs, ext] taken relative to the output root.   *)
(***************************************************************************)
EXTENDS Integers, Sequences, FiniteSets, Bags, TLC

\* ---------------------------------------------------------------- bounds
MaxRuns == 2          \* download cycles of the scheduler loop that are explored
MaxTasks == 3         \* asset tasks submitted to the pool in one run
NumOrigAssets == 1    \* entries of the supplementary asset list that are explored

\* ------------------------------------------------------------- URL values
Path(segs, ext, slash) == [segs |-> segs, ext |-> ext, slash |-> slash]

PEmpty == Path(<<>>, "", FALSE)
PRoot == Path(<<>>, "", TRUE)

NoQuery == [has_url |-> FALSE, url |-> PEmpty, w |-> "", rest |-> ""]
PlainQuery(s) == [has_url |-> FALSE, url |-> PEmpty, w |-> "", rest |-> s]
ImageQuery(p, w) == [has_url |-> TRUE, url |-> p, w |-> w, rest |-> ""]

\* scheme "" stands for the http(s) scheme of the site; any other scheme is
\* a URI without authority such as sms:5 or mailto:x, its rest kept in path
Url(host, path, query, frag) ==
    [scheme |-> "", host |-> host, path |-> path, query |-> query, frag |-> frag]

Opaque(scheme, rest) == [Url("", Path(<<rest>>, "", FALSE), NoQuery, "") EXCEPT !.scheme = scheme]

domain == "x.test"
base_url == Url(domain, PEmpty, NoQuery, "")

\* a root-relative reference as it is written in a document
Rel(path) == Url("", path, NoQuery, "")

\* '/_next/image' in path
HasNextImage(path) ==
    \E i \in 1..(Len(path.segs) - 1) : path.segs[i] = "_next" /\ path.segs[i + 1] = "image"

\* os.path.splitext(path)[1]
splitext(path) == IF Len(path.segs) > 0 /\ ~path.slash THEN path.ext ELSE ""

is_same_domain(url) == url.host = "" \/ url.host = domain

\* a reference such as "http://[bad": urljoin raises ValueError (Invalid IPv6
\* URL) on it, and so does normalize_url, which catches nothing. In a pool
\* task the exception is raised again by future.result() and caught in the
\* join loop, which leaves the element as it is.
BadRef == Url("[bad", PEmpty, NoQuery, "")
Unparsable(ref) == ref.host = "[bad"

\* urljoin leaves a reference with a scheme of its own as it is
normalize_url(url, current_url) ==
    LET joined == IF url.scheme # "" \/ url.host # "" THEN url
                  ELSE IF url.path = PEmpty
                       THEN [url EXCEPT !.host = current_url.host, !.path = current_url.path,
                                        !.query = IF url.query = NoQuery THEN current_url.query
                                                  ELSE url.query]
                       ELSE [url EXCEPT !.host = current_url.host]
    IN [joined EXCEPT !.frag = ""]

\* mutant: the query is never removed from a page URL
compare_url_KeepQuery(url) == url

\* parsed._replace(query='') unless '/_next/image' occurs in the URL
compare_url(url) == IF HasNextImage(url.path) THEN url ELSE [url EXCEPT !.query = NoQuery]

\* --------------------------------------------------------- local paths
LPath(segs, ext) == [segs |-> segs, ext |-> ext]
NoneLP == LPath(<<"None">>, "None")

get_local_path_for_nextjs_image(url) ==
    IF url.query.has_url
    THEN LET p == url.query.url
             n == Len(p.segs)
         IN IF url.query.w # "" /\ n > 0
            THEN LPath([i \in 1..n |-> IF i = n THEN p.segs[i] \o "_w" \o url.query.w
                                       ELSE p.segs[i]], p.ext)
            ELSE LPath(p.segs, p.ext)
    ELSE NoneLP

get_local_path(url) ==
    LET path == url.path IN
    IF HasNextImage(path) THEN get_local_path_for_nextjs_image(url)
    ELSE IF Len(path.segs) = 0 THEN LPath(<<"index">>, ".html")
    ELSE IF splitext(path) = ""
         THEN IF path.slash THEN LPath(path.segs \o <<"index">>, ".html")
              ELSE LPath(path.segs, ".html")
    ELSE LPath(path.segs, path.ext)

\* os.path.join(self.output_dir, original_path.lstrip('/'))
OriginalLocalPath(p) == LPath(p.segs, p.ext)

\* the components of a local path; only the last one carries the extension
Comps(lp) == [i \in 1..Len(lp.segs) |-> <<lp.segs[i], IF i = Len(lp.segs) THEN lp.ext ELSE "">>]
dirname(lp) == SubSeq(Comps(lp), 1, Len(lp.segs) - 1)

CommonLen(a, b) ==
    LET m == IF Len(a) < Len(b) THEN Len(a) ELSE Len(b)
        agree == {k \in 0..m : \A i \in 1..k : a[i] = b[i]}
    IN CHOOSE k \in agree : \A j \in agree : j <= k

\* mutant: the reference is the path from the output directory
relpath_FromRoot(target, start) == [up |-> 0, down |-> Comps(target)]

\* os.path.relpath(target, start).replace('\\', '/')
relpath(target, start) ==
    LET t == Comps(target)
        c == CommonLen(t, start)
    IN [up |-> Len(start) - c, down |-> SubSeq(t, c + 1, Len(t))]

\* ------------------------------------------- document references and DOM
NoRel == [up |-> 0, down |-> <<>>]
UrlVal(u) == [t |-> "url", url |-> u, rel |-> NoRel]
RelVal(r) == [t |-> "rel", url |-> Rel(PEmpty), rel |-> r]

\* a data: URI that embeds the bytes of the file downloaded from u
DataVal(mime, u) == [t |-> "data:" \o mime, url |-> u, rel |-> NoRel]

\* an element of a parsed document: its kind, the reference as it appears in
\* the source, the current attribute value, whether it was decomposed, and
\* (history) how the asset task that served it ended
El(kind, ref) == [kind |-> kind, ref |-> ref, val |-> UrlVal(ref), removed |-> FALSE, st |-> "none"]

\* href.startswith('#')
IsFragmentOnly(ref) ==
    ref.scheme = "" /\ ref.host = "" /\ ref.path = PEmpty /\ ref.query = NoQuery /\ ref.frag # ""

\* an attribute value without any URL in it ("" or blanks)
IsBlank(ref) == ref = Rel(PEmpty)

\* the hrefs that extract_links and the anchor rewrite pass over
IsSkippedHref(ref) == IsFragmentOnly(ref) \/ ref.scheme \in {"javascript", "mailto", "tel"}

\* ------------------------------------------------------- asset filtering
ASSET_CATEGORY_MAP ==
    [html |-> {".html", ".htm"}, css |-> {".css"}, js |-> {".js", ".mjs", ".ts"},
     image |-> {".png", ".jpg", ".jpeg", ".gif", ".svg", ".webp", ".ico", ".bmp", ".tiff", ".avif"},
     font |-> {".woff2", ".woff", ".ttf", ".eot", ".otf"},
     media |-> {".mp4", ".webm", ".mp3", ".wav", ".ogg", ".mov"},
     doc |-> {".pdf", ".txt", ".xml", ".json"}]

get_asset_category(url, content_type) ==
    LET ext == splitext(url.path)
        hits == {c \in DOMAIN ASSET_CATEGORY_MAP : ext \in ASSET_CATEGORY_MAP[c]}
    IN IF hits # {} THEN CHOOSE c \in hits : TRUE
       ELSE IF content_type = "text/css" THEN "css"
       ELSE IF content_type = "application/javascript" THEN "js"
       ELSE IF content_type \in {"image/png", "image/webp"} THEN "image"
       ELSE IF content_type = "font/woff2" THEN "font"
       ELSE IF content_type = "video/mp4" THEN "media"
       ELSE "other"

None == -1

\* str.lower() on the category names that occur
lower(t) == IF t = "CSS" THEN "css" ELSE IF t = "Image" THEN "image" ELSE t

AssetFilter(include_types, exclude_types, include_patterns, exclude_patterns, min_size, max_size) ==
    [include_types |-> {lower(t) : t \in include_types},
     exclude_types |-> {lower(t) : t \in exclude_types},
     include_patterns |-> include_patterns, exclude_patterns |-> exclude_patterns,
     min_size |-> min_size, max_size |-> max_size]

\* pattern.search(url): a pattern is a literal that matches a path segment or
\* the extension of the URL
search(pattern, url) == pattern = url.path.ext \/ \E i \in 1..Len(url.path.segs) : url.path.segs[i] = pattern

\* category = category or 'other'; cat = category.lower()
Cat(category) == lower(IF category = "" THEN "other" ELSE category)

\* mutant: the include patterns are not consulted
allows_NoIncludePatterns(f, url, category) ==
    /\ ~(f.include_types # {} /\ Cat(category) \notin f.include_types)
    /\ Cat(category) \notin f.exclude_types
    /\ ~\E p \in f.exclude_patterns : search(p, url)

allows(f, url, category) ==
    IF f.include_types # {} /\ Cat(category) \notin f.include_types THEN FALSE
    ELSE IF Cat(category) \in f.exclude_types THEN FALSE
    ELSE IF \E p \in f.exclude_patterns : search(p, url) THEN FALSE
    ELSE IF f.include_patterns # {} THEN \E p \in f.include_patterns : search(p, url)
    ELSE TRUE

allows_size(f, size_bytes) ==
    IF f.min_size # None /\ size_bytes < f.min_size THEN FALSE
    ELSE IF f.max_size # None /\ size_bytes > f.max_size THEN FALSE
    ELSE TRUE

\* ------------------------------------------------------------ the origin
\* A site maps the paths it serves to documents (sequences of elements) and
\* to assets (content type, size, whether an ETag is sent).
Asset(ctype, size, etag) == [ctype |-> ctype, size |-> size, etag |-> etag]

ServerPath(url) == IF url.path = PEmpty THEN PRoot ELSE url.path

Response(status, ctype, size, etag, body) ==
    [status |-> status, ctype |-> ctype, size |-> size, etag |-> etag, body |-> body]

ErrorResponse == Response(0, "", 0, FALSE, <<>>)
NotModified == Response(304, "", 0, FALSE, <<>>)

\* the answer of the origin when the resource is served in full
Served(s, url) ==
    IF url.scheme # "" THEN {}    \* session.get raises InvalidSchema
    ELSE IF HasNextImage(url.path)
    THEN IF url.query.has_url /\ url.query.url \in DOMAIN s.assets
         THEN {Response(200, s.assets[url.query.url].ctype, s.assets[url.query.url].size, FALSE, <<>>)}
         ELSE {}
    ELSE IF ServerPath(url) \in DOMAIN s.pages
         THEN {Response(200, "text/html", 1, TRUE, s.pages[ServerPath(url)])}
    ELSE IF ServerPath(url) \in DOMAIN s.assets
         THEN {Response(200, s.assets[url.path].ctype, s.assets[url.path].size, s.assets[url.path].etag, <<>>)}
    ELSE {}

\* session.get: a transport error or error status, the resource, or 304 for a
\* conditional request of a resource that exists
Responses(s, url, conditional) ==
    {ErrorResponse} \cup Served(s, url)
        \cup (IF conditional /\ Served(s, url) # {} THEN {NotModified} ELSE {})

\* ------------------------------------------------------------- scenarios
PA == Path(<<"a">>, "", FALSE)
PB == Path(<<"b">>, "", FALSE)
PC == Path(<<"c">>, "", FALSE)
PI == Path(<<"i">>, ".png", FALSE)
PK == Path(<<"img", "k">>, ".png", FALSE)
PBig == Path(<<"big">>, ".png", FALSE)
PFont == Path(<<"f">>, ".woff2", FALSE)
PNext == Path(<<"_next", "image">>, "", FALSE)
PAvatar == Path(<<"avatar">>, "", FALSE)
PS1 == Path(<<"s1">>, ".css", FALSE)
PAHtml == Path(<<"a">>, ".html", FALSE)
PS2 == Path(<<"s2">>, ".css", FALSE)

\* robots_txt is the set of answers the origin may give for /robots.txt:
\* "error" (the request raises), "non200", "html" or "json" (a 200 whose body
\* is not a robots file), "rules" (a robots file that disallows `disallowed`
\* and, unless crawl_delay is None, carries a Crawl-delay line)
Site(pages, assets, disallowed, robots_txt) ==
    [pages |-> pages, assets |-> assets, disallowed |-> disallowed, robots_txt |-> robots_txt,
     crawl_delay |-> None, sheets |-> <<>>]

\* the url() references of the stylesheet served at url, as the file holds them
Sheet(s, url) == IF url.path \in DOMAIN s.sheets THEN s.sheets[url.path] ELSE <<>>

NoFilter == AssetFilter({}, {}, {}, {}, None, None)

\* sheets maps the path of a stylesheet to the url() references in it
\* (elements of kind "url")

\* a frontier of three pages whose links overlap, differ in query and
\* fragment, leave the origin, and point at dynamic-image URLs
FrontierSite ==
    Site((PRoot :> <<El("a", Url("", PA, NoQuery, "top")), El("a", Rel(PB))>>)
         @@ (PA :> <<El("a", Url("", PB, PlainQuery("x=1"), "")), El("a", Url("other.test", PC, NoQuery, ""))>>)
         @@ (PB :> <<El("a", Url("", PNext, ImageQuery(PI, ""), "")),
                     El("a", Url("", PNext, ImageQuery(PK, "64"), ""))>>),
         (PI :> Asset("image/png", 1, TRUE)) @@ (PK :> Asset("image/png", 1, TRUE)),
         {}, {"non200"})

\* one page that references the same image twice and carries a preload link
SharedAssetSite ==
    Site((PRoot :> <<El("preload", Rel(PFont)), El("img", Rel(PI)), El("icon", Url("", PI, NoQuery, "x"))>>),
         (PI :> Asset("image/png", 1, TRUE)) @@ (PFont :> Asset("font/woff2", 1, TRUE)),
         {}, {"non200"})

\* one page with an oversized image, a dynamic-image transform and an
\* inline style reference
FilterSite ==
    Site((PRoot :> <<El("img", Rel(PBig)), El("img", Url("", PNext, ImageQuery(PI, "64"), "")),
                     El("style", Rel(PK))>>),
         (PBig :> Asset("image/png", 2, TRUE)) @@ (PI :> Asset("image/png", 1, TRUE))
             @@ (PK :> Asset("image/png", 1, FALSE)),
         {}, {"non200"})

\* two pages with one image each, for incremental re-runs
TwoPageSite ==
    Site((PRoot :> <<El("img", Rel(PI)), El("a", Rel(PA))>>) @@ (PA :> <<El("img", Rel(PK))>>),
         (PI :> Asset("image/png", 1, TRUE)) @@ (PK :> Asset("image/png", 1, TRUE)),
         {}, {"non200"})

\* DEFAULT_CONFIG['delay'] and the upper end of random.uniform(0, 0.3), in
\* units of 0.3 s
DefaultDelay == 1
Jitter == {0, 1}

\* a seed that links to /a and /b; /a shows an image served without file
\* extension both directly and through the dynamic-image endpoint, and holds
\* a <source> whose srcset is blank
PictureSite ==
    Site((PRoot :> <<El("a", Rel(PA)), El("a", Rel(PB))>>)
         @@ (PA :> <<El("img", Rel(PAvatar)), El("img", Url("", PNext, ImageQuery(PAvatar, ""), "")),
                     El("source", Rel(PEmpty))>>)
         @@ (PB :> <<>>),
         (PAvatar :> Asset("image/png", 1, TRUE)),
         {}, {"non200"})

\* one page with two stylesheets that use the same font
CssSite ==
    [Site((PRoot :> <<El("css", Rel(PS1)), El("css", Rel(PS2))>>),
          (PS1 :> Asset("text/css", 1, TRUE)) @@ (PS2 :> Asset("text/css", 1, TRUE))
              @@ (PFont :> Asset("font/woff2", 1, TRUE)),
          {}, {"non200"})
        EXCEPT !.sheets = (PS1 :> <<El("url", Rel(PFont))>>) @@ (PS2 :> <<El("url", Rel(PFont))>>)]

\* one page that links the same stylesheet twice
CssTwiceSite ==
    [Site((PRoot :> <<El("css", Rel(PS1)), El("css", Rel(PS1))>>),
          (PS1 :> Asset("text/css", 1, TRUE)) @@ (PFont :> Asset("font/woff2", 1, TRUE)),
          {}, {"non200"})
        EXCEPT !.sheets = (PS1 :> <<El("url", Rel(PFont))>>)]

\* a chain of pages: /a and /a.html are different pages of the origin, the
\* seed has an image and /b an anchor whose reference cannot be parsed
EdgeSite ==
    Site((PRoot :> <<El("a", Rel(PA)), El("img", BadRef)>>)
             @@ (PA :> <<El("a", Rel(PAHtml))>>)
             @@ (PAHtml :> <<El("a", Rel(PB))>>)
             @@ (PB :> <<El("a", BadRef)>>),
         <<>>, {}, {"non200"})

\* one download cycle with robots compliance on, file opens that succeed and
\* the default delay, unless a scenario says otherwise
Scenario(s, f, w, inc) ==
    [site |-> s, asset_filter |-> f, worker_count |-> w, incremental |-> inc,
     respect_robots |-> TRUE, fs_faults |-> FALSE, scheduled |-> FALSE, delay |-> DefaultDelay]

\* a seed that links to two pages and to a phone URI, behind a robots.txt
\* that may fail to load or may disallow /b
RobotsSite ==
    [Site((PRoot :> <<El("a", Rel(PA)), El("a", Rel(PB)), El("a", Opaque("sms", "5"))>>)
          @@ (PA :> <<>>) @@ (PB :> <<>>),
          <<>>,
          {PB}, {"error", "non200", "html", "json", "rules"}) EXCEPT !.crawl_delay = 2]

Scenarios ==
    {Scenario(RobotsSite, NoFilter, 1, TRUE),
     [Scenario(RobotsSite, NoFilter, 1, FALSE) EXCEPT !.respect_robots = FALSE],
     [Scenario(TwoPageSite, NoFilter, 1, FALSE) EXCEPT !.fs_faults = TRUE],
     [Scenario([FrontierSite EXCEPT !.robots_txt = {"rules"}, !.crawl_delay = 2], NoFilter, 1, TRUE)
         EXCEPT !.delay = 3],
     Scenario(SharedAssetSite, NoFilter, 1, TRUE),
     Scenario(SharedAssetSite, NoFilter, 2, TRUE),
     [Scenario(FilterSite, AssetFilter({}, {}, {}, {}, None, 1), 2, TRUE) EXCEPT !.scheduled = TRUE],
     [Scenario(TwoPageSite, NoFilter, 2, TRUE) EXCEPT !.scheduled = TRUE],
     Scenario(TwoPageSite, NoFilter, 1, FALSE),
     Scenario(PictureSite, NoFilter, 1, FALSE),
     Scenario(CssSite, NoFilter, 1, FALSE),
     Scenario(EdgeSite, NoFilter, 1, TRUE),
     Scenario(CssTwiceSite, NoFilter, 2, FALSE)}

\* the supplementary asset list of download_original_assets
ALL_ASSET_PATHS ==
    <<Path(<<"assets", "center-right">>, ".png", FALSE),
      Path(<<"assets", "center">>, ".png", FALSE),
      Path(<<"assets", "down">>, ".png", FALSE)>>

asset_paths == SubSeq(ALL_ASSET_PATHS, 1, NumOrigAssets)

\* ----------------------------------------------------------------- state
VARIABLES
    site, asset_filter, worker_count, incremental,   \* the origin and the configuration
    respect_robots, fs_faults,                       \* robots compliance; whether file opens may fail
    scheduled,                                       \* --schedule: the download cycle is repeated
    delay,                                           \* --delay
    robots,                                          \* RobotsHandler
    base_delay,                                      \* self.base_delay
    run,                                             \* number of the current download cycle
    pc, cur, response, dom, work, asset_tasks, ji, orig_i,   \* the control thread
    pages_to_visit, visited_urls,                    \* the frontier
    request_count, skipped_urls,                     \* locals of download(): pages processed, pages skipped
    last_sleep,                                      \* (history) length of the time.sleep since the last page GET
    downloaded_assets, asset_lock,                   \* the asset registry and its lock
    state_data, state_file,                          \* the incremental state, in memory and on disk
    state_meta,                                      \* the condition of state.json and state.json.tmp
    disk,                                            \* files under the output root
    thr, ntasks,                                     \* thread 0 is the control thread, 1.. are pool tasks
    events                                           \* history: a bag of requests and writes

confv == <<site, asset_filter, worker_count, incremental, respect_robots, fs_faults, scheduled,
          delay>>
cfgv == <<confv, robots, base_delay, run>>
mainv == <<pc, cur, response, dom, work, asset_tasks, ji, orig_i>>
loopv == <<request_count, skipped_urls, last_sleep>>
frontier == <<pages_to_visit, visited_urls, loopv>>
store == <<state_file, state_meta>>
vars == <<cfgv, mainv, frontier, downloaded_assets, asset_lock, state_data, store, disk,
          thr, ntasks, events>>

Free == -1
Main == 0
Threads == 0..MaxTasks

Empty == <<>>
Max(a, b) == IF a > b THEN a ELSE b
Put(f, k, v) == [x \in (DOMAIN f) \cup {k} |-> IF x = k THEN v ELSE f[x]]
Remove(f, k) == [x \in (DOMAIN f) \ {k} |-> f[x]]

\* RobotsHandler before load(); parsed stands for the RobotFileParser having
\* read a file, outcome (history) for the answer that load() met
NewRobots ==
    [loaded |-> FALSE, allow_all |-> FALSE, parsed |-> FALSE, disallowed |-> {}, crawl_delay |-> None,
     outcome |-> ""]

\* mutant: a robots.txt that cannot be used is not turned into allow-all
load_NoFallback(outcome, rules, crawl_delay) ==
    IF outcome = "rules"
    THEN [loaded |-> TRUE, allow_all |-> FALSE, parsed |-> TRUE, disallowed |-> rules,
          crawl_delay |-> crawl_delay, outcome |-> outcome]
    ELSE [loaded |-> TRUE, allow_all |-> FALSE, parsed |-> FALSE, disallowed |-> {},
          crawl_delay |-> None, outcome |-> outcome]

\* RobotsHandler.load
load(outcome, rules, crawl_delay) ==
    IF outcome = "rules"
    THEN [loaded |-> TRUE, allow_all |-> FALSE, parsed |-> TRUE, disallowed |-> rules,
          crawl_delay |-> crawl_delay, outcome |-> outcome]
    ELSE [loaded |-> TRUE, allow_all |-> TRUE, parsed |-> FALSE, disallowed |-> {},
          crawl_delay |-> None, outcome |-> outcome]

\* RobotsHandler.can_fetch; a RobotFileParser that has read nothing allows nothing
can_fetch(rb, url) ==
    IF rb.allow_all THEN TRUE ELSE rb.parsed /\ ServerPath(url) \notin rb.disallowed

\* ------------------------------------------------------- the state store
state_path == "state.json"

\* mutant: the map is written in place, over the target
temp_path_InPlace == state_path

\* temp_path = self.state_path + '.tmp'
temp_path == "state.json.tmp"

\* target and tmp say whether state.json and state.json.tmp are "missing",
\* "partial" (opened for writing, not yet complete), "complete" or, for the
\* target, "corrupt"; state_file holds what state.json contains and tmp_data
\* what the temp file contains; old_target and old_file (history) are the
\* target as it was when _save_state began
NoStore ==
    [target |-> "missing", tmp |-> "missing", tmp_data |-> <<>>, old_target |-> "missing",
     old_file |-> <<>>, loaded |-> FALSE]

IdleThread ==
    [pc |-> "idle", mode |-> "", ref |-> Rel(PEmpty), page |-> Rel(PEmpty), elem |-> 0,
     url |-> Rel(PEmpty), lpath |-> NoneLP, ok |-> FALSE, ctype |-> "", etag |-> FALSE,
     res |-> UrlVal(Rel(PEmpty)), saw |-> FALSE,
     css_url |-> Rel(PEmpty), css_path |-> NoneLP, css_content |-> <<>>, ci |-> 0]

File(full, kind, url, content) == [full |-> full, kind |-> kind, url |-> url, content |-> content]

Ev(ev, url, status, cond) == [ev |-> ev, url |-> url, run |-> run, status |-> status, cond |-> cond]
Log(E) == events (+) SetToBag(E)

\* (history) an access of a shared structure by the running thread; locked
\* says whether the access is inside a with-block of a lock. One record is
\* kept per cycle and kind of access.
Access(what, locked) ==
    [ev |-> what, url |-> Rel(PEmpty), run |-> run, status |-> 0, cond |-> locked]
Touch(E) == {e \in E : ~BagIn(e, events)}

Count(P(_)) == BagCardinality([e \in {x \in DOMAIN events : P(x)} |-> events[e]])

Init ==
    /\ \E s \in Scenarios :
          /\ site = s.site
          /\ asset_filter = s.asset_filter
          /\ worker_count = s.worker_count
          /\ incremental = s.incremental
          /\ respect_robots = s.respect_robots
          /\ fs_faults = s.fs_faults
          /\ scheduled = s.scheduled
          /\ delay = s.delay
          /\ base_delay = s.delay
    /\ robots = NewRobots
    /\ run = 1
    /\ pc = "start"
    /\ cur = base_url
    /\ response = ErrorResponse
    /\ dom = <<>>
    /\ work = <<>>
    /\ asset_tasks = <<>>
    /\ ji = 0
    /\ orig_i = 1
    /\ pages_to_visit = <<>>
    /\ visited_urls = {}
    /\ request_count = 0
    /\ skipped_urls = <<>>
    /\ last_sleep = None
    /\ downloaded_assets = Empty
    /\ asset_lock = Free
    /\ state_data = Empty
    /\ state_file = Empty
    /\ state_meta = NoStore
    /\ disk = Empty
    /\ thr = [t \in Threads |-> IdleThread]
    /\ ntasks = 0
    /\ events = EmptyBag

\* ------------------------------------------------- incremental state
\* mutant: whatever bytes state.json holds are taken for the map
_load_state_Trusting == state_file

\* a missing file and a file that json.load rejects both give {}
_load_state == IF state_meta.target = "complete" THEN state_file ELSE Empty

\* the request carries If-None-Match / If-Modified-Since
_get_conditional_headers(url) ==
    incremental /\ url \in DOMAIN state_data /\ state_data[url].etag

_update_state(url, etag, ctype, local_path) ==
    IF incremental
    THEN Put(state_data, url, [etag |-> etag, content_type |-> ctype, local_path |-> local_path,
                               timestamp |-> run])
    ELSE state_data

\* ------------------------------------------------------ asset registry
\* mutant: the deduplication check never finds a URL
InRegistry_Never(url) == FALSE

InRegistry(url) == url \in DOMAIN downloaded_assets

get_relative_path_from_cache(registry, asset_url, page_url) ==
    IF asset_url \notin DOMAIN registry THEN UrlVal(asset_url)
    ELSE IF get_local_path(page_url) = NoneLP THEN UrlVal(asset_url)
    ELSE RelVal(relpath(registry[asset_url], dirname(get_local_path(page_url))))

\* ------------------------------------------------ download_file, by steps
\* what a thread does with a 200 response: the filter on category and
\* pattern, then on size, before anything is persisted
FilterRejects(url, r) ==
    \/ ~allows(asset_filter, url, get_asset_category(url, r.ctype))
    \/ ~allows_size(asset_filter, r.size)

\* mutant: a failed GET is issued again
OnFetchError_Retry(t) == [t EXCEPT !.pc = "get"]

\* raise_for_status or a transport error: except Exception: return False, '', False
OnFetchError(t) == [t EXCEPT !.pc = "ret", !.ok = FALSE, !.ctype = ""]

\* mutant: the body is persisted without consulting the filter
AfterResponse_NoFilter(t, r) ==
    IF r.status = 304 THEN [t EXCEPT !.pc = "nm"]
    ELSE IF r.status # 200 THEN OnFetchError(t)
    ELSE [t EXCEPT !.pc = "open", !.ctype = r.ctype, !.etag = r.etag]

AfterResponse(t, r) ==
    IF r.status = 304 THEN [t EXCEPT !.pc = "nm"]
    ELSE IF r.status # 200 THEN OnFetchError(t)
    ELSE IF FilterRejects(t.url, r) THEN [t EXCEPT !.pc = "ret", !.ok = FALSE, !.ctype = r.ctype]
    ELSE [t EXCEPT !.pc = "open", !.ctype = r.ctype, !.etag = r.etag]

RejectEvents(url, r) ==
    IF r.status = 200 /\ FilterRejects(url, r) THEN {Ev("reject", url, 200, FALSE)} ELSE {}

\* (history) an earlier GET of url failed in this run
FailedBefore(url) ==
    \E e \in DOMAIN events :
        e.ev \in {"page_get", "asset_get"} /\ e.url = url /\ e.run = run /\ e.status = 0

RefetchEvents(url, is_page) == IF FailedBefore(url) THEN {Ev("refetch", url, 0, is_page)} ELSE {}

\* _get_conditional_headers reads state_data outside state_lock
HeadersAccess == IF incremental THEN {Access("state_data.read", FALSE)} ELSE {}

\* session.get(url, headers=headers): the conditional GET
DF_Get(th) ==
    /\ thr[th].pc = "get"
    /\ \E r \in Responses(site, thr[th].url, _get_conditional_headers(thr[th].url)) :
          /\ thr' = [thr EXCEPT ![th] = AfterResponse(@, r)]
          /\ events' = Log({Ev("asset_get", thr[th].url, r.status,
                               _get_conditional_headers(thr[th].url))}
                           \cup RefetchEvents(thr[th].url, FALSE)
                           \cup RejectEvents(thr[th].url, r)
                           \cup Touch(HeadersAccess))
    /\ UNCHANGED <<cfgv, mainv, frontier, downloaded_assets, asset_lock, state_data, store,
                   disk, ntasks>>

\* mutant: a 304 for a file that is still there records a new entry
AfterCacheHit_Record == "record"

\* return True, entry.get('content_type', ''), True
AfterCacheHit == "ret"

\* a 304: the recorded file is still there and is registered, or it is gone
DF_NotModified(th) ==
    /\ thr[th].pc = "nm"
    /\ LET url == thr[th].url
           known == url \in DOMAIN state_data
       IN IF known /\ state_data[url].local_path \in DOMAIN disk
          THEN /\ asset_lock = Free
               /\ downloaded_assets' = Put(downloaded_assets, url, state_data[url].local_path)
               /\ thr' = [thr EXCEPT ![th].pc = AfterCacheHit, ![th].ok = TRUE,
                                     ![th].ctype = state_data[url].content_type]
               /\ events' = Log({Ev("up_to_date", url, 304, TRUE)}
                                \cup Touch({Access("state_data.read", FALSE),
                                            Access("downloaded_assets.write", TRUE)}))
          ELSE /\ thr' = [thr EXCEPT ![th].pc = "get2"]
               /\ events' = Log(Touch({Access("state_data.read", FALSE)}))
               /\ UNCHANGED downloaded_assets
    /\ UNCHANGED <<cfgv, mainv, frontier, asset_lock, state_data, store, disk, ntasks>>

\* the missing-file fallback: session.get(url) without headers
DF_Get2(th) ==
    /\ thr[th].pc = "get2"
    /\ \E r \in Responses(site, thr[th].url, FALSE) :
          /\ thr' = [thr EXCEPT ![th] = AfterResponse(@, r)]
          /\ events' = Log({Ev("asset_get", thr[th].url, r.status, FALSE)}
                           \cup RefetchEvents(thr[th].url, FALSE)
                           \cup RejectEvents(thr[th].url, r))
    /\ UNCHANGED <<cfgv, mainv, frontier, downloaded_assets, asset_lock, state_data, store,
                   disk, ntasks>>

\* --recon: a ReconScanner is attached in every scenario; it takes no part
\* in the crawl
recon_mode == TRUE

\* download_file(url, local_path, category='asset'): no caller passes a
\* category
category_default == "asset"

\* if self.scanner and category in ['js', 'css', 'doc', 'other']:
\*     self.scanner.scan_content(url, content, content_type)
ScanAsset(url, category) ==
    IF recon_mode /\ category \in {"js", "css", "doc", "other"}
    THEN {Ev("scan", url, 200, FALSE)} ELSE {}

\* the scan of the body, then create_directory and open(local_path, 'wb'):
\* the file exists and is empty
DF_Open(th) ==
    /\ thr[th].pc = "open"
    /\ \/ /\ disk' = Put(disk, thr[th].lpath, File(FALSE, "asset", thr[th].url, <<>>))
          /\ thr' = [thr EXCEPT ![th].pc = "write"]
          /\ events' = Log(ScanAsset(thr[th].url, category_default))
       \/ \* create_directory or open raises: except Exception: return False, '', False
          /\ fs_faults
          /\ thr' = [thr EXCEPT ![th].pc = "ret", ![th].ok = FALSE, ![th].ctype = ""]
          /\ events' = Log({Ev("fs_error", thr[th].url, 0, FALSE)}
                           \cup ScanAsset(thr[th].url, category_default))
          /\ UNCHANGED disk
    /\ UNCHANGED <<cfgv, mainv, frontier, downloaded_assets, asset_lock, state_data, store,
                   ntasks>>

\* f.write(content) and close
DF_Write(th) ==
    /\ thr[th].pc = "write"
    /\ disk' = Put(disk, thr[th].lpath, File(TRUE, "asset", thr[th].url, Sheet(site, thr[th].url)))
    /\ thr' = [thr EXCEPT ![th].pc = "record"]
    /\ events' = Log({Ev("body_write", thr[th].url, 200, FALSE)})
    /\ UNCHANGED <<cfgv, mainv, frontier, downloaded_assets, asset_lock, state_data, store,
                   ntasks>>

\* _update_state writes state_data inside state_lock
UpdateAccess == IF incremental THEN {Access("state_data.write", TRUE)} ELSE {}

\* _update_state, then the registration under asset_lock
DF_Record(th) ==
    /\ thr[th].pc = "record"
    /\ asset_lock = Free
    /\ state_data' = _update_state(thr[th].url, thr[th].etag, thr[th].ctype, thr[th].lpath)
    /\ downloaded_assets' = Put(downloaded_assets, thr[th].url, thr[th].lpath)
    /\ thr' = [thr EXCEPT ![th].pc = "ret", ![th].ok = TRUE]
    /\ events' = Log(Touch({Access("downloaded_assets.write", TRUE)} \cup UpdateAccess))
    /\ UNCHANGED <<cfgv, mainv, frontier, asset_lock, store, disk, ntasks>>

\* ------------------------------------------- _download_asset_task, by steps
Running == {t \in 1..MaxTasks : thr[t].pc \notin {"idle", "queued", "done"}}

\* mutant: a thread is started for every submitted task
PoolHasIdleWorker_Always == TRUE

\* ThreadPoolExecutor(max_workers=self.worker_count) runs at most worker_count
\* tasks at a time
PoolHasIdleWorker == Cardinality(Running) < worker_count

\* a pool worker takes the oldest queued task
T_Start(th) ==
    /\ th # Main
    /\ thr[th].pc = "queued"
    /\ PoolHasIdleWorker
    /\ \A t \in 1..(th - 1) : thr[t].pc # "queued"
    /\ thr' = [thr EXCEPT ![th].pc = "check"]
    /\ UNCHANGED <<cfgv, mainv, frontier, downloaded_assets, asset_lock, state_data, store,
                   disk, ntasks, events>>

\* normalize, same-origin test, and the registry check under asset_lock; on a
\* hit the task calls get_relative_path_from_cache while it holds the lock
T_Check(th) ==
    /\ thr[th].pc = "check"
    /\ LET full == normalize_url(thr[th].ref, thr[th].page) IN
       IF ~is_same_domain(full)
       THEN /\ thr' = [thr EXCEPT ![th].pc = "done", ![th].res = UrlVal(thr[th].ref),
                                  ![th].url = full]
            /\ UNCHANGED asset_lock
       ELSE /\ asset_lock = Free
            /\ IF InRegistry(full)
               THEN /\ asset_lock' = th
                    /\ thr' = [thr EXCEPT ![th].pc = "blocked", ![th].url = full, ![th].saw = TRUE]
               ELSE /\ UNCHANGED asset_lock
                    /\ IF get_local_path(full) = NoneLP
                       THEN thr' = [thr EXCEPT ![th].pc = "done", ![th].res = UrlVal(thr[th].ref),
                                               ![th].url = full]
                       ELSE thr' = [thr EXCEPT ![th].pc = "get", ![th].url = full,
                                               ![th].lpath = get_local_path(full),
                                               ![th].saw = full \in DOMAIN downloaded_assets]
    /\ events' = LET full == normalize_url(thr[th].ref, thr[th].page) IN
                 Log((IF thr'[th].pc = "get" THEN {Ev("df_call", full, 0, FALSE)} ELSE {})
                     \cup Touch(IF is_same_domain(full)
                                THEN {Access("downloaded_assets.read", TRUE)} ELSE {}))
    /\ UNCHANGED <<cfgv, mainv, frontier, downloaded_assets, state_data, store, disk, ntasks>>

\* after download_file: register on success, then the relative reference
T_Finish(th) ==
    /\ thr[th].pc = "ret"
    /\ thr[th].mode = "task"
    /\ asset_lock = Free
    /\ LET reg == IF thr[th].ok THEN Put(downloaded_assets, thr[th].url, thr[th].lpath)
                  ELSE downloaded_assets
       IN /\ downloaded_assets' = reg
          /\ IF thr[th].ok /\ thr[th].lpath.ext = ".css"
             THEN thr' = [thr EXCEPT ![th].pc = "css_read", ![th].mode = "css",
                                     ![th].css_url = thr[th].url, ![th].css_path = thr[th].lpath]
             ELSE thr' = [thr EXCEPT ![th].pc = "done",
                                     ![th].res = get_relative_path_from_cache(reg, thr[th].url,
                                                                              thr[th].page)]
    /\ events' = Log(Touch((IF thr[th].ok THEN {Access("downloaded_assets.write", TRUE)} ELSE {})
                           \cup (IF thr'[th].pc = "done"
                                 THEN {Access("downloaded_assets.read", TRUE)} ELSE {})))
    /\ UNCHANGED <<cfgv, mainv, frontier, asset_lock, state_data, store, disk, ntasks>>

\* ------------------------------------------------ process_css_file, by steps
FontExts == {".woff2", ".woff", ".ttf", ".eot"}

mime(ext) ==
    IF ext = ".woff2" THEN "font/woff2"
    ELSE IF ext = ".woff" THEN "font/woff"
    ELSE IF ext = ".ttf" THEN "font/ttf"
    ELSE "application/vnd.ms-fontobject"

\* css_content.replace(url, value): every occurrence of the reference as the
\* stylesheet wrote it
ReplaceUrl(content, ref, value) ==
    [i \in 1..Len(content) |-> IF content[i].val = UrlVal(ref) THEN [content[i] EXCEPT !.val = value]
                               ELSE content[i]]

\* open(css_path, 'r') and re.findall of the url() references
C_Read(th) ==
    /\ thr[th].pc = "css_read"
    /\ IF thr[th].css_path \in DOMAIN disk
       THEN thr' = [thr EXCEPT ![th].pc = "css_url", ![th].ci = 1,
                               ![th].css_content = disk[thr[th].css_path].content]
       ELSE thr' = [thr EXCEPT ![th].pc = "css_ret"]
    /\ UNCHANGED <<cfgv, mainv, frontier, downloaded_assets, asset_lock, state_data, store, disk,
                   ntasks, events>>

\* one url of the list: same-origin test, the registry check under asset_lock
\* and, for a URL that is not registered, the call of download_file; a URL
\* that is registered is passed over
C_Url(th) ==
    /\ thr[th].pc = "css_url"
    /\ LET t == thr[th] IN
       IF t.ci > Len(t.css_content)
       THEN /\ thr' = [thr EXCEPT ![th].pc = "css_open"]
            /\ UNCHANGED events
       ELSE LET full == normalize_url(t.css_content[t.ci].ref, t.css_url) IN
            IF ~is_same_domain(full)
            THEN /\ thr' = [thr EXCEPT ![th].ci = t.ci + 1]
                 /\ UNCHANGED events
            ELSE /\ asset_lock = Free
                 /\ IF InRegistry(full) \/ get_local_path(full) = NoneLP
                    THEN /\ thr' = [thr EXCEPT ![th].ci = t.ci + 1]
                         /\ events' = Log(Touch({Access("downloaded_assets.read", TRUE)}))
                    ELSE /\ thr' = [thr EXCEPT ![th].pc = "get", ![th].url = full,
                                               ![th].lpath = get_local_path(full),
                                               ![th].ok = FALSE, ![th].ctype = "", ![th].saw = FALSE]
                         /\ events' = Log({Ev("df_call", full, 0, FALSE)}
                                          \cup Touch({Access("downloaded_assets.read", TRUE)}))
    /\ UNCHANGED <<cfgv, mainv, frontier, downloaded_assets, asset_lock, state_data, store, disk,
                   ntasks>>

\* after download_file: register on success; a font file that can be opened
\* is embedded as a data: URI, any other reference becomes a relative path
C_Done(th) ==
    /\ thr[th].pc = "ret"
    /\ thr[th].mode = "css"
    /\ thr[th].ok => asset_lock = Free
    /\ LET t == thr[th]
           relative == RelVal(relpath(t.lpath, dirname(t.css_path)))
           value == IF t.lpath.ext \in FontExts /\ t.lpath \in DOMAIN disk
                    THEN DataVal(mime(t.lpath.ext), disk[t.lpath].url)
                    ELSE relative
       IN /\ downloaded_assets' = IF t.ok THEN Put(downloaded_assets, t.url, t.lpath)
                                  ELSE downloaded_assets
          /\ thr' = [thr EXCEPT ![th].pc = "css_url", ![th].ci = t.ci + 1,
                                ![th].css_content = ReplaceUrl(t.css_content,
                                                               t.css_content[t.ci].ref, value)]
    /\ events' = Log(Touch(IF thr[th].ok THEN {Access("downloaded_assets.write", TRUE)} ELSE {}))
    /\ UNCHANGED <<cfgv, mainv, frontier, asset_lock, state_data, store, disk, ntasks>>

\* open(css_path, 'w'): the stylesheet on disk is empty
C_Open(th) ==
    /\ thr[th].pc = "css_open"
    /\ disk' = Put(disk, thr[th].css_path, File(FALSE, "css", thr[th].css_url, <<>>))
    /\ thr' = [thr EXCEPT ![th].pc = "css_write"]
    /\ UNCHANGED <<cfgv, mainv, frontier, downloaded_assets, asset_lock, state_data, store,
                   ntasks, events>>

\* f.write(css_content)
C_Write(th) ==
    /\ thr[th].pc = "css_write"
    /\ disk' = Put(disk, thr[th].css_path, File(TRUE, "css", thr[th].css_url, thr[th].css_content))
    /\ thr' = [thr EXCEPT ![th].pc = "css_ret"]
    /\ UNCHANGED <<cfgv, mainv, frontier, downloaded_assets, asset_lock, state_data, store,
                   ntasks, events>>

\* back in _download_asset_task: the relative reference of the stylesheet
C_Ret(th) ==
    /\ thr[th].pc = "css_ret"
    /\ asset_lock = Free
    /\ thr' = [thr EXCEPT ![th].pc = "done", ![th].mode = "task", ![th].ok = TRUE,
                          ![th].url = thr[th].css_url, ![th].lpath = thr[th].css_path,
                          ![th].res = get_relative_path_from_cache(downloaded_assets,
                                                                   thr[th].css_url, thr[th].page)]
    /\ events' = Log(Touch({Access("downloaded_assets.read", TRUE)}))
    /\ UNCHANGED <<cfgv, mainv, frontier, downloaded_assets, asset_lock, state_data, store, disk,
                   ntasks>>

\* ------------------------------------------------------ the control thread
IndicesOf(d, kinds) ==
    SelectSeq([i \in 1..Len(d) |-> i], LAMBDA i : d[i].kind \in kinds /\ ~d[i].removed)

\* mutant: the preload links stay in the tree
RemovePreload_Keep(d) == d

\* for link in soup.find_all('link', rel='preload'): link.decompose()
RemovePreload(d) == [i \in 1..Len(d) |-> IF d[i].kind = "preload" THEN [d[i] EXCEPT !.removed = TRUE] ELSE d[i]]

\* the order in which process_page reaches the asset-bearing elements
DispatchOrder(d) ==
    IndicesOf(d, {"css"}) \o IndicesOf(d, {"img"}) \o IndicesOf(d, {"source"}) \o IndicesOf(d, {"icon"})

\* mutant: the answer of the robots handler is not consulted
_can_fetch_Ignore(url) == TRUE

_can_fetch(url) == IF ~respect_robots THEN TRUE ELSE can_fetch(robots, url)

\* mutant: the failure of a page leaves download()
OnPageError_Abort == "aborted"

\* except Exception in process_page: the failure is printed, process_page
\* returns and the crawl loop goes on with its sleep
OnPageError == "sleep"

extract_links(d, current_url) ==
    {compare_url(normalize_url(d[i].ref, current_url)) :
        i \in {j \in 1..Len(d) : /\ d[j].kind = "a"
                                 /\ ~d[j].removed
                                 /\ ~IsSkippedHref(d[j].ref)
                                 /\ is_same_domain(normalize_url(d[j].ref, current_url))}}

\* the sequences that list every member of S once (iteration order of a set)
Orders(S) == {q \in [1..Cardinality(S) -> S] : \A i, j \in 1..Cardinality(S) : i # j => q[i] # q[j]}

\* a['href'] = relative path to the local file of the link target
RewriteAnchors(d, current_url) ==
    [i \in 1..Len(d) |->
        IF /\ d[i].kind = "a"
           /\ ~IsSkippedHref(d[i].ref)
           /\ is_same_domain(normalize_url(d[i].ref, current_url))
           /\ get_local_path(normalize_url(d[i].ref, current_url)) # NoneLP
           /\ get_local_path(current_url) # NoneLP
        THEN [d[i] EXCEPT !.val = RelVal(relpath(get_local_path(normalize_url(d[i].ref, current_url)),
                                                 dirname(get_local_path(current_url))))]
        ELSE d[i]]

NewTask(ref, page, e) == [IdleThread EXCEPT !.pc = "queued", !.mode = "task", !.ref = ref,
                                            !.page = page, !.elem = e]

SyncDownload(mode, url, lpath, e) == [IdleThread EXCEPT !.pc = "get", !.mode = mode, !.url = url,
                                                        !.lpath = lpath, !.elem = e]

\* (history) the file recorded in the IncrementalEntry of url is on disk
RecordedFilePresent(url) == url \in DOMAIN state_data /\ state_data[url].local_path \in DOMAIN disk

\* download(): robots.txt, the output directory, the seed
M_Start ==
    /\ pc = "start"
    /\ IF respect_robots
       THEN /\ \E o \in site.robots_txt : robots' = load(o, site.disallowed, site.crawl_delay)
            /\ base_delay' = IF robots'.crawl_delay > 0 THEN Max(base_delay, robots'.crawl_delay)
                             ELSE base_delay
       ELSE UNCHANGED <<robots, base_delay>>
    /\ pages_to_visit' = Append(pages_to_visit, base_url)
    /\ pc' = "loop"
    /\ UNCHANGED <<confv, run, cur, response, dom, work, asset_tasks, ji, orig_i, visited_urls,
                   loopv, downloaded_assets, asset_lock, state_data, store, disk, thr, ntasks,
                   events>>

\* mutant: the newest entry of the queue is taken (deque.pop)
popleft_Pop(q) == [url |-> q[Len(q)], rest |-> SubSeq(q, 1, Len(q) - 1)]

\* deque.popleft(): the oldest entry and the queue that remains
popleft(q) == [url |-> Head(q), rest |-> Tail(q)]

\* mutant: the content type of a page response is not looked at
IsHtml_Any(r) == TRUE

\* 'text/html' in content_type
IsHtml(r) == r.ctype = "text/html"

\* one iteration of the crawl loop up to the parsed document: popleft, robots
\* check, the visited test, the page GET
M_Loop ==
    /\ pc = "loop"
    /\ pages_to_visit # <<>>
    /\ LET url == popleft(pages_to_visit).url IN
       /\ pages_to_visit' = popleft(pages_to_visit).rest
       /\ IF ~_can_fetch(url)
          THEN /\ skipped_urls' = Append(skipped_urls, url)
               /\ events' = Log({Ev("robots_skip", url, 0, FALSE)})
               /\ UNCHANGED <<visited_urls, request_count, last_sleep, mainv>>
          ELSE IF compare_url(url) \in visited_urls
          THEN /\ request_count' = request_count + 1
               /\ events' = Log({Ev("visited_skip", url, 0, FALSE)}
                                \cup Touch({Access("visited_urls.read", FALSE)}))
               /\ pc' = "sleep"
               /\ UNCHANGED <<visited_urls, skipped_urls, last_sleep, cur, response, dom, work,
                              asset_tasks, ji, orig_i>>
          ELSE /\ request_count' = request_count + 1
               /\ visited_urls' = visited_urls \cup {compare_url(url)}
               /\ last_sleep' = None
               /\ UNCHANGED skipped_urls
               /\ \E r \in Responses(site, url, _get_conditional_headers(url)) :
                     /\ events' = Log({Ev("page_get", url, r.status, _get_conditional_headers(url))}
                                      \cup RefetchEvents(url, TRUE)
                                      \cup (IF r.status = 304
                                            THEN {Ev("up_to_date", url, 304,
                                                     RecordedFilePresent(url))}
                                            ELSE {})
                                      \cup (IF recon_mode /\ r.status = 200 /\ IsHtml(r)
                                            THEN {Ev("scan", url, 200, FALSE)} ELSE {})
                                      \cup Touch({Access("visited_urls.read", FALSE),
                                                  Access("visited_urls.write", FALSE)}
                                                 \cup HeadersAccess))
                     /\ IF r.status = 0
                        THEN /\ pc' = OnPageError
                             /\ UNCHANGED <<cur, response, dom, work, asset_tasks, ji, orig_i>>
                        ELSE IF r.status = 200 /\ IsHtml(r)
                        THEN /\ pc' = "dispatch"
                             /\ cur' = url
                             /\ response' = r
                             /\ dom' = RemovePreload(r.body)
                             /\ work' = DispatchOrder(RemovePreload(r.body))
                             /\ asset_tasks' = <<>>
                             /\ ji' = 0
                             /\ UNCHANGED orig_i
                        ELSE /\ pc' = "sleep"
                             /\ UNCHANGED <<cur, response, dom, work, asset_tasks, ji, orig_i>>
    /\ UNCHANGED <<cfgv, downloaded_assets, asset_lock, state_data, store, disk, thr, ntasks>>

\* queue_asset(element, attribute, asset_url): submit a task to the pool
M_QueueAsset ==
    /\ pc = "dispatch"
    /\ work # <<>>
    /\ ~(dom[Head(work)].kind = "img" /\ HasNextImage(dom[Head(work)].ref.path))
    /\ ~(dom[Head(work)].kind = "source" /\ IsBlank(dom[Head(work)].ref))
    /\ ntasks < MaxTasks
    /\ ntasks' = ntasks + 1
    /\ thr' = [thr EXCEPT ![ntasks + 1] = NewTask(dom[Head(work)].ref, cur, Head(work))]
    /\ asset_tasks' = Append(asset_tasks, [task |-> ntasks + 1, elem |-> Head(work)])
    /\ work' = Tail(work)
    /\ UNCHANGED <<cfgv, pc, cur, response, dom, ji, orig_i, frontier, downloaded_assets,
                   asset_lock, state_data, store, disk, events>>

\* a <source srcset> whose value holds no URL: srcset.split()[0] raises
\* IndexError, which the except clause of process_page catches; the tasks
\* queued so far are not waited for
M_SourceError ==
    /\ pc = "dispatch"
    /\ work # <<>>
    /\ dom[Head(work)].kind = "source"
    /\ IsBlank(dom[Head(work)].ref)
    /\ pc' = OnPageError
    /\ events' = Log({Ev("page_error", cur, 0, FALSE)})
    /\ UNCHANGED <<cfgv, cur, response, dom, work, asset_tasks, ji, orig_i, frontier,
                   downloaded_assets, asset_lock, state_data, store, disk, thr, ntasks>>

\* img['src'] = relative path of the original asset
RewriteImage(d, e, lpath, st) ==
    [d EXCEPT ![e].val = RelVal(relpath(lpath, dirname(get_local_path(cur)))), ![e].st = st]

\* an img whose src is a dynamic-image URL: the original asset is looked up in
\* the registry and, when absent, downloaded on the control thread
M_NextImage ==
    /\ pc = "dispatch"
    /\ work # <<>>
    /\ dom[Head(work)].kind = "img"
    /\ HasNextImage(dom[Head(work)].ref.path)
    /\ LET e == Head(work)
           q == dom[e].ref.query
           original_url == Url(domain, q.url, NoQuery, "")
       IN IF ~q.has_url
          THEN /\ work' = Tail(work)
               /\ UNCHANGED <<pc, dom, thr>>
          ELSE /\ asset_lock = Free
               /\ IF ~InRegistry(original_url)
                  THEN /\ thr' = [thr EXCEPT ![Main] =
                                    [SyncDownload("next", original_url, OriginalLocalPath(q.url), e)
                                        EXCEPT !.saw = original_url \in DOMAIN downloaded_assets]]
                       /\ pc' = "sync_wait"
                       /\ UNCHANGED <<work, dom>>
                  ELSE IF get_local_path(cur) = NoneLP
                  THEN /\ pc' = OnPageError
                       /\ UNCHANGED <<work, dom, thr>>
                  ELSE /\ dom' = RewriteImage(dom, e, OriginalLocalPath(q.url), "ok")
                       /\ work' = Tail(work)
                       /\ UNCHANGED <<pc, thr>>
    /\ events' = Log((IF pc' = "sync_wait" THEN {Ev("df_call", thr'[Main].url, 0, FALSE)} ELSE {})
                     \cup Touch(IF dom[Head(work)].ref.query.has_url
                                THEN {Access("downloaded_assets.read", TRUE)} ELSE {}))
    /\ UNCHANGED <<cfgv, cur, response, asset_tasks, ji, orig_i, frontier, downloaded_assets,
                   asset_lock, state_data, store, disk, ntasks>>

\* the dynamic-image branch after download_file: register, rewrite img src
M_SyncDone ==
    /\ pc = "sync_wait"
    /\ thr[Main].pc = "ret"
    /\ thr[Main].mode = "next"
    /\ asset_lock = Free
    /\ downloaded_assets' = IF thr[Main].ok
                            THEN Put(downloaded_assets, thr[Main].url, thr[Main].lpath)
                            ELSE downloaded_assets
    /\ thr' = [thr EXCEPT ![Main] = IdleThread]
    /\ IF get_local_path(cur) = NoneLP
       THEN \* os.path.dirname(None) raises; process_page logs and returns
            /\ pc' = OnPageError
            /\ UNCHANGED <<dom, work>>
       ELSE /\ dom' = RewriteImage(dom, thr[Main].elem, thr[Main].lpath,
                                   IF thr[Main].ok THEN "ok" ELSE "failed")
            /\ work' = Tail(work)
            /\ pc' = "dispatch"
    /\ events' = Log(Touch(IF thr[Main].ok THEN {Access("downloaded_assets.write", TRUE)} ELSE {}))
    /\ UNCHANGED <<cfgv, cur, response, asset_tasks, ji, orig_i, frontier, asset_lock,
                   state_data, store, disk, ntasks>>

\* every element is dispatched: go and resolve the queued downloads
M_DispatchEnd ==
    /\ pc = "dispatch"
    /\ work = <<>>
    /\ pc' = "join"
    /\ ji' = 0
    /\ UNCHANGED <<cfgv, cur, response, dom, work, asset_tasks, orig_i, frontier, downloaded_assets,
                   asset_lock, state_data, store, disk, thr, ntasks, events>>

\* new_value = future.result(); element[attribute] = new_value
M_Join ==
    /\ pc = "join"
    /\ ji < Len(asset_tasks)
    /\ LET a == asset_tasks[ji + 1] IN
       /\ thr[a.task].pc = "done"
       /\ dom' = [dom EXCEPT ![a.elem].val = thr[a.task].res,
                             ![a.elem].st = IF thr[a.task].ok THEN "ok" ELSE "failed"]
    /\ ji' = ji + 1
    /\ UNCHANGED <<cfgv, pc, cur, response, work, asset_tasks, orig_i, frontier, downloaded_assets,
                   asset_lock, state_data, store, disk, thr, ntasks, events>>

M_JoinEnd ==
    /\ pc = "join"
    /\ ji = Len(asset_tasks)
    /\ pc' = "style"
    /\ work' = IndicesOf(dom, {"style"})
    /\ UNCHANGED <<cfgv, cur, response, dom, asset_tasks, ji, orig_i, frontier, downloaded_assets,
                   asset_lock, state_data, store, disk, thr, ntasks, events>>

\* inline style url(): _download_asset_task called on the control thread
M_Style ==
    /\ pc = "style"
    /\ work # <<>>
    /\ thr[Main].pc = "idle"
    /\ thr' = [thr EXCEPT ![Main] = [NewTask(dom[Head(work)].ref, cur, Head(work)) EXCEPT !.pc = "check"]]
    /\ pc' = "style_wait"
    /\ UNCHANGED <<cfgv, cur, response, dom, work, asset_tasks, ji, orig_i, frontier,
                   downloaded_assets, asset_lock, state_data, store, disk, ntasks, events>>

M_StyleDone ==
    /\ pc = "style_wait"
    /\ thr[Main].pc = "done"
    /\ dom' = [dom EXCEPT ![thr[Main].elem].val = thr[Main].res,
                          ![thr[Main].elem].st = IF thr[Main].ok THEN "ok" ELSE "failed"]
    /\ thr' = [thr EXCEPT ![Main] = IdleThread]
    /\ work' = Tail(work)
    /\ pc' = "style"
    /\ UNCHANGED <<cfgv, cur, response, asset_tasks, ji, orig_i, frontier, downloaded_assets,
                   asset_lock, state_data, store, disk, ntasks, events>>

\* the second preload loop, link extraction and the rewriting of anchors
LatePreload(d) == IndicesOf(d, {"preload"})

\* the anchors that extract_links passes to normalize_url
LinkAnchors(d) == {j \in 1..Len(d) : d[j].kind = "a" /\ ~d[j].removed /\ ~IsSkippedHref(d[j].ref)}

\* extract_links meets an href that normalize_url raises on: the exception
\* leaves process_page through its except clause, nothing is written
M_LinkError ==
    /\ pc = "style"
    /\ work = <<>>
    /\ \E j \in LinkAnchors(dom) : Unparsable(dom[j].ref)
    /\ pc' = OnPageError
    /\ events' = Log({Ev("page_error", cur, 0, FALSE)})
    /\ UNCHANGED <<cfgv, cur, response, dom, work, asset_tasks, ji, orig_i, frontier,
                   downloaded_assets, asset_lock, state_data, store, disk, thr, ntasks>>

M_Finalize ==
    /\ pc = "style"
    /\ work = <<>>
    /\ \A j \in LinkAnchors(dom) : ~Unparsable(dom[j].ref)
    /\ LET late == LatePreload(dom)
           queued == SelectSeq(late, LAMBDA i : ~HasNextImage(dom[i].ref.path))
           n == Len(queued)
           to_add == {l \in extract_links(dom, cur) : compare_url(l) \notin visited_urls}
       IN /\ ntasks + n <= MaxTasks
          /\ ntasks' = ntasks + n
          /\ thr' = [t \in Threads |->
                        IF t > ntasks /\ t <= ntasks + n
                        THEN NewTask(dom[queued[t - ntasks]].ref, cur, queued[t - ntasks])
                        ELSE thr[t]]
          /\ asset_tasks' = asset_tasks \o [k \in 1..n |-> [task |-> ntasks + k, elem |-> queued[k]]]
          /\ \E order \in Orders(to_add) : pages_to_visit' = pages_to_visit \o order
          /\ dom' = RewriteAnchors([i \in 1..Len(dom) |->
                                       IF dom[i].kind = "preload" /\ ~dom[i].removed
                                          /\ HasNextImage(dom[i].ref.path)
                                       THEN [dom[i] EXCEPT !.removed = TRUE] ELSE dom[i]], cur)
    /\ pc' = "pg_open"
    /\ events' = Log(Touch(IF extract_links(dom, cur) # {}
                           THEN {Access("visited_urls.read", FALSE)} ELSE {}))
    /\ UNCHANGED <<cfgv, cur, response, work, ji, orig_i, visited_urls, loopv, downloaded_assets,
                   asset_lock, state_data, store, disk>>

\* open(local_path, 'w'): the page file exists and is empty
M_PageOpen ==
    /\ pc = "pg_open"
    /\ IF get_local_path(cur) = NoneLP
       THEN /\ pc' = "sleep"
            /\ UNCHANGED <<disk, events>>
       ELSE \/ /\ disk' = Put(disk, get_local_path(cur), File(FALSE, "page", cur, <<>>))
               /\ pc' = "pg_write"
               /\ UNCHANGED events
            \/ \* create_directory or open raises
               /\ fs_faults
               /\ pc' = OnPageError
               /\ events' = Log({Ev("fs_error", cur, 0, TRUE)})
               /\ UNCHANGED disk
    /\ UNCHANGED <<cfgv, cur, response, dom, work, asset_tasks, ji, orig_i, frontier,
                   downloaded_assets, asset_lock, state_data, store, thr, ntasks>>

\* f.write(beautified_html), then _update_state for the page
M_PageWrite ==
    /\ pc = "pg_write"
    /\ disk' = Put(disk, get_local_path(cur), File(TRUE, "page", cur, dom))
    /\ state_data' = _update_state(cur, response.etag, response.ctype, get_local_path(cur))
    /\ events' = Log({Ev("page_write", cur, 200, FALSE)} \cup Touch(UpdateAccess))
    /\ pc' = "sleep"
    /\ UNCHANGED <<cfgv, cur, response, dom, work, asset_tasks, ji, orig_i, frontier,
                   downloaded_assets, asset_lock, store, thr, ntasks>>

\* mutant: only the random component is slept
_get_delay_Jitter(jitter) == jitter

\* max(base_delay, crawl-delay) when robots.txt gave a crawl delay, else
\* base_delay; plus random.uniform(0, 0.3)
_get_delay(jitter) ==
    (IF respect_robots /\ robots.crawl_delay > 0 THEN Max(base_delay, robots.crawl_delay)
     ELSE base_delay) + jitter

\* after process_page: delay = self._get_delay(); time.sleep(delay)
M_Sleep ==
    /\ pc = "sleep"
    /\ \E j \in Jitter : last_sleep' = _get_delay(j)
    /\ pc' = "loop"
    /\ UNCHANGED <<cfgv, cur, response, dom, work, asset_tasks, ji, orig_i, pages_to_visit,
                   visited_urls, request_count, skipped_urls, downloaded_assets, asset_lock,
                   state_data, store, disk, thr, ntasks, events>>

\* the frontier is empty: on to the supplementary assets
M_LoopEnd ==
    /\ pc = "loop"
    /\ pages_to_visit = <<>>
    /\ pc' = "orig"
    /\ orig_i' = 1
    /\ UNCHANGED <<cfgv, cur, response, dom, work, asset_tasks, ji, frontier, downloaded_assets,
                   asset_lock, state_data, store, disk, thr, ntasks, events>>

\* download_original_assets: one entry of the list
M_Orig ==
    /\ pc = "orig"
    /\ orig_i <= Len(asset_paths)
    /\ LET url == Url(domain, asset_paths[orig_i], NoQuery, "")
           local_path == OriginalLocalPath(asset_paths[orig_i])
       IN IF ~allows(asset_filter, url, get_asset_category(url, ""))
          THEN /\ orig_i' = orig_i + 1
               /\ UNCHANGED <<pc, thr>>
          ELSE /\ asset_lock = Free
               /\ IF InRegistry(url)
                  THEN /\ orig_i' = orig_i + 1
                       /\ UNCHANGED <<pc, thr>>
                  ELSE /\ thr' = [thr EXCEPT ![Main] =
                                    [SyncDownload("orig", url, local_path, 0)
                                        EXCEPT !.saw = url \in DOMAIN downloaded_assets]]
                       /\ pc' = "orig_wait"
                       /\ UNCHANGED orig_i
    /\ events' = Log((IF pc' = "orig_wait" THEN {Ev("df_call", thr'[Main].url, 0, FALSE)} ELSE {})
                     \cup Touch(LET url == Url(domain, asset_paths[orig_i], NoQuery, "") IN
                                IF allows(asset_filter, url, get_asset_category(url, ""))
                                THEN {Access("downloaded_assets.read", TRUE)} ELSE {}))
    /\ UNCHANGED <<cfgv, cur, response, dom, work, asset_tasks, ji, frontier, downloaded_assets,
                   asset_lock, state_data, store, disk, ntasks>>

M_OrigDone ==
    /\ pc = "orig_wait"
    /\ thr[Main].pc = "ret"
    /\ thr[Main].mode = "orig"
    /\ asset_lock = Free
    /\ downloaded_assets' = IF thr[Main].ok
                            THEN Put(downloaded_assets, thr[Main].url, thr[Main].lpath)
                            ELSE downloaded_assets
    /\ thr' = [thr EXCEPT ![Main] = IdleThread]
    /\ orig_i' = orig_i + 1
    /\ pc' = "orig"
    /\ events' = Log(Touch(IF thr[Main].ok THEN {Access("downloaded_assets.write", TRUE)} ELSE {}))
    /\ UNCHANGED <<cfgv, cur, response, dom, work, asset_tasks, ji, frontier, asset_lock,
                   state_data, store, disk, ntasks>>

\* the completion box, create_summary, create_exports, and the entry of
\* _save_state, which returns at once when incremental mode is off
M_Save ==
    /\ pc = "orig"
    /\ orig_i > Len(asset_paths)
    /\ pc' = IF incremental THEN "save_open" ELSE "shutdown"
    /\ state_meta' = [state_meta EXCEPT !.old_target = state_meta.target, !.old_file = state_file]
    /\ events' = Log({Ev("summary", base_url, Cardinality(visited_urls), FALSE)}
                     \cup Touch({Access("visited_urls.read", FALSE),
                                 Access("downloaded_assets.read", FALSE)}))
    /\ UNCHANGED <<cfgv, cur, response, dom, work, asset_tasks, ji, orig_i, frontier,
                   downloaded_assets, asset_lock, state_data, state_file, disk, thr, ntasks>>

\* open(temp_path, 'w'): the file at temp_path exists and is empty
SS_Open ==
    /\ pc = "save_open"
    /\ IF temp_path = state_path
       THEN /\ state_meta' = [state_meta EXCEPT !.target = "partial"]
            /\ state_file' = Empty
       ELSE /\ state_meta' = [state_meta EXCEPT !.tmp = "partial", !.tmp_data = Empty]
            /\ UNCHANGED state_file
    /\ pc' = "save_dump"
    /\ UNCHANGED <<cfgv, cur, response, dom, work, asset_tasks, ji, orig_i, frontier,
                   downloaded_assets, asset_lock, state_data, disk, thr, ntasks, events>>

\* json.dump(self.state_data, fh) and the close of the file
SS_Dump ==
    /\ pc = "save_dump"
    /\ IF temp_path = state_path
       THEN /\ state_meta' = [state_meta EXCEPT !.target = "complete"]
            /\ state_file' = state_data
       ELSE /\ state_meta' = [state_meta EXCEPT !.tmp = "complete", !.tmp_data = state_data]
            /\ UNCHANGED state_file
    /\ pc' = "save_replace"
    /\ events' = Log(Touch({Access("state_data.read", FALSE)}))
    /\ UNCHANGED <<cfgv, cur, response, dom, work, asset_tasks, ji, orig_i, frontier,
                   downloaded_assets, asset_lock, state_data, disk, thr, ntasks>>

\* os.replace(temp_path, self.state_path): one atomic rename
SS_Replace ==
    /\ pc = "save_replace"
    /\ IF temp_path = state_path
       THEN UNCHANGED <<state_meta, state_file>>
       ELSE /\ state_meta' = [state_meta EXCEPT !.target = state_meta.tmp, !.tmp = "missing",
                                                !.tmp_data = Empty]
            /\ state_file' = state_meta.tmp_data
    /\ pc' = "shutdown"
    /\ UNCHANGED <<cfgv, cur, response, dom, work, asset_tasks, ji, orig_i, frontier,
                   downloaded_assets, asset_lock, state_data, disk, thr, ntasks, events>>

\* asset_executor.shutdown(wait=True): download() returns; (history) the page
\* and asset counts of the run, as the completion box prints them
M_Shutdown ==
    /\ pc = "shutdown"
    /\ \A t \in 1..ntasks : thr[t].pc = "done"
    /\ pc' = "done"
    /\ events' = Log({Ev("pages", base_url, Cardinality(visited_urls), FALSE),
                      Ev("assets", base_url, Cardinality(DOMAIN downloaded_assets), FALSE)})
    /\ UNCHANGED <<cfgv, cur, response, dom, work, asset_tasks, ji, orig_i, frontier,
                   downloaded_assets, asset_lock, state_data, store, disk, thr, ntasks>>

\* (history) the requests of cycle r
Requests(r) == {e \in DOMAIN events : e.ev \in {"page_get", "asset_get"} /\ e.run = r}

\* (history) what is remembered of the cycle that ended: its page and asset
\* counts, the assets its filter rejected, what the user did after it, and
\* whether every request for a resource that the origin serves got a 200
Digest ==
    [e \in {x \in DOMAIN events :
                x.run = run /\ x.ev \in {"pages", "assets", "reject", "deleted", "damaged"}}
        |-> events[e]]
    (+) SetToBag({Ev("served_ok", base_url, 0,
                     \A e \in Requests(run) : Served(site, e.url) # {} => e.status = 200)})

\* the next cycle of the scheduler: a new WebsiteDownloader over the same
\* output directory, its state loaded from the state file
M_NextRun ==
    /\ pc = "done"
    /\ scheduled
    /\ run < MaxRuns
    /\ run' = run + 1
    /\ pc' = "start"
    /\ cur' = base_url
    /\ response' = ErrorResponse
    /\ dom' = <<>>
    /\ work' = <<>>
    /\ asset_tasks' = <<>>
    /\ ji' = 0
    /\ orig_i' = 1
    /\ pages_to_visit' = <<>>
    /\ visited_urls' = {}
    /\ request_count' = 0
    /\ skipped_urls' = <<>>
    /\ last_sleep' = None
    /\ base_delay' = delay
    /\ downloaded_assets' = Empty
    /\ state_data' = IF incremental THEN _load_state ELSE Empty
    /\ state_meta' = [state_meta EXCEPT !.loaded = incremental /\ state_meta.target = "complete"]
    /\ thr' = [t \in Threads |-> IdleThread]
    /\ ntasks' = 0
    /\ robots' = NewRobots
    /\ events' = Digest
    /\ UNCHANGED <<confv, asset_lock, state_file, disk>>

\* between two cycles a file of the mirror is deleted by the user
EnvDelete ==
    /\ pc = "done"
    /\ scheduled
    /\ run < MaxRuns
    /\ \A e \in DOMAIN events : e.ev \notin {"deleted", "damaged"}
    /\ \E lp \in DOMAIN disk :
          /\ disk' = Remove(disk, lp)
          /\ events' = Log({Ev("deleted", disk[lp].url, 0, FALSE)})
    /\ UNCHANGED <<cfgv, mainv, frontier, downloaded_assets, asset_lock, state_data, store,
                   thr, ntasks>>

\* between two cycles state.json is removed or overwritten with bytes that are
\* not JSON
EnvDamageState ==
    /\ pc = "done"
    /\ scheduled
    /\ run < MaxRuns
    /\ incremental
    /\ state_meta.target = "complete"
    /\ \A e \in DOMAIN events : e.ev \notin {"deleted", "damaged"}
    /\ \E k \in {"missing", "corrupt"} :
          /\ state_meta' = [state_meta EXCEPT !.target = k]
          /\ state_file' = IF k = "missing" THEN Empty ELSE state_file
    /\ events' = Log({Ev("damaged", base_url, 0, FALSE)})
    /\ UNCHANGED <<cfgv, mainv, frontier, downloaded_assets, asset_lock, state_data, disk,
                   thr, ntasks>>

\* the program locations of the crawl loop of download()
CrawlPcs ==
    {"loop", "dispatch", "sync_wait", "join", "style", "style_wait", "pg_open", "pg_write", "sleep"}

\* KeyboardInterrupt in the control thread: no handler in process_page or in
\* download() catches it, the frames unwind (a lock held by a with block is
\* released) and download() is left; pool threads go on
Interrupt ==
    /\ pc \in CrawlPcs
    /\ pc' = "interrupted"
    /\ cur' = base_url
    /\ response' = ErrorResponse
    /\ dom' = <<>>
    /\ work' = <<>>
    /\ asset_tasks' = <<>>
    /\ ji' = 0
    /\ thr' = [thr EXCEPT ![Main] = IdleThread]
    /\ asset_lock' = IF asset_lock = Main THEN Free ELSE asset_lock
    /\ UNCHANGED <<cfgv, orig_i, frontier, downloaded_assets, state_data, store, disk, ntasks,
                   events>>

\* the process is killed while _save_state runs
Crash ==
    /\ pc \in {"save_open", "save_dump", "save_replace"}
    /\ pc' = "crashed"
    /\ UNCHANGED <<cfgv, cur, response, dom, work, asset_tasks, ji, orig_i, frontier,
                   downloaded_assets, asset_lock, state_data, store, disk, thr, ntasks, events>>

\* the steps of the program
Engine ==
    \/ M_Start \/ M_Loop \/ M_LoopEnd
    \/ M_QueueAsset \/ M_SourceError \/ M_LinkError \/ M_NextImage \/ M_SyncDone \/ M_DispatchEnd
    \/ M_Join \/ M_JoinEnd \/ M_Style \/ M_StyleDone \/ M_Finalize
    \/ M_PageOpen \/ M_PageWrite \/ M_Sleep
    \/ M_Orig \/ M_OrigDone \/ M_Save \/ SS_Open \/ SS_Dump \/ SS_Replace
    \/ M_Shutdown \/ M_NextRun
    \/ \E th \in Threads :
          \/ T_Start(th) \/ T_Check(th) \/ T_Finish(th)
          \/ DF_Get(th) \/ DF_NotModified(th) \/ DF_Get2(th)
          \/ DF_Open(th) \/ DF_Write(th) \/ DF_Record(th)
          \/ C_Read(th) \/ C_Url(th) \/ C_Done(th) \/ C_Open(th) \/ C_Write(th) \/ C_Ret(th)

\* the steps of the user and of the operating system
Environment == EnvDelete \/ EnvDamageState \/ Interrupt \/ Crash

Next == Engine \/ Environment

Spec == Init /\ [][Next]_vars

\* the interpreter schedules every thread that can run, and the control
\* thread goes on whenever it is not waiting
LiveSpec == Spec /\ WF_vars(Engine)

\* =================================================================== claims
\* the canonical page URL as the claim words it: fragment and query removed
Canonical(u) == [u EXCEPT !.query = NoQuery, !.frag = ""]

\* the key under which the engine files a page in the visited set
VisitedKey(u) == IF HasNextImage(u.path) THEN u ELSE [u EXCEPT !.query = NoQuery]

PageGetsOf(K(_), k, r) == Count(LAMBDA x : x.ev = "page_get" /\ x.run = r /\ K(x.url) = k)

\* C1 as stated: within one run at most one page GET is issued among all URLs
\* that reduce to the same URL once fragment and query are removed.
C1_OncePerCanonicalUrl ==
    \A e \in DOMAIN events : e.ev = "page_get" => PageGetsOf(Canonical, Canonical(e.url), e.run) <= 1

\* C1 amended: within one run at most one page GET is issued among all URLs
\* that have the same visited-set key, which is the URL without its query
\* unless the URL contains '/_next/image', whose query is kept.
C1_OncePerVisitedKey ==
    \A e \in DOMAIN events : e.ev = "page_get" => PageGetsOf(VisitedKey, VisitedKey(e.url), e.run) <= 1

\* a link to an already visited page was dequeued and dropped, after the one
\* GET of that page
C1_Witness ==
    \E e \in DOMAIN events :
        /\ e.ev = "visited_skip"
        /\ PageGetsOf(VisitedKey, VisitedKey(e.url), e.run) = 1

\* C2: an asset task whose registry check finds the canonical URL registered
\* completes with the relative reference from the referencing page to the
\* registered local path (and has issued no request: it never downloads).
C2_RegistryHitCompletes ==
    \A th \in Threads :
        (thr[th].mode = "task" /\ thr[th].saw) =>
            /\ thr[th].pc = "done"
            /\ thr[th].url \in DOMAIN downloaded_assets
            /\ thr[th].res = RelVal(relpath(downloaded_assets[thr[th].url],
                                            dirname(get_local_path(thr[th].page))))

BodyWritesOf(u, r) == Count(LAMBDA x : x.ev = "body_write" /\ x.run = r /\ x.url = u)

\* C3 as stated: in every interleaving each canonical asset URL has its body
\* written to disk at most once during a run.
C3_AtMostOneDownload ==
    \A e \in DOMAIN events : e.ev = "body_write" => BodyWritesOf(e.url, e.run) <= 1

DownloadSteps == {"get", "nm", "get2", "open", "write", "record", "ret"}

\* C3 amended: a thread is inside download_file for a URL only if its own
\* registry check found the URL absent, so a URL is downloaded again only by
\* threads whose checks preceded its first registration.
C3_DownloadOnlyAfterMiss ==
    \A th \in Threads : thr[th].pc \in DownloadSteps => ~thr[th].saw

\* a task met a URL that an earlier task has downloaded once and registered
C3_Witness ==
    \E th \in Threads :
        /\ thr[th].saw
        /\ thr[th].url \in DOMAIN downloaded_assets
        /\ BodyWritesOf(thr[th].url, run) = 1

\* C4: a canonical URL that is not yet visited occurs at most once in
\* pages_to_visit.
C4_QueuedOnceWhileUnvisited ==
    \A i, j \in 1..Len(pages_to_visit) :
        (i # j /\ VisitedKey(pages_to_visit[i]) = VisitedKey(pages_to_visit[j]))
            => VisitedKey(pages_to_visit[i]) \in visited_urls

\* the file a relative reference denotes when it is resolved in directory dir
Resolve(dir, rel) ==
    IF rel.up > Len(dir) THEN <<>> ELSE SubSeq(dir, 1, Len(dir) - rel.up) \o rel.down

FileOf(comps) ==
    LPath([i \in 1..Len(comps) |-> comps[i][1]], IF Len(comps) = 0 THEN "" ELSE comps[Len(comps)][2])

\* C5: when the run ends, every reference rewritten to a local relative path
\* in a persisted page resolves, from the directory of that page, to a file
\* that exists under the output root.
C5_RewrittenReferencesResolve ==
    (pc = "done" /\ run = 1) =>
        \A lp \in DOMAIN disk :
            (disk[lp].kind = "page" /\ disk[lp].full) =>
                \A i \in 1..Len(disk[lp].content) :
                    (disk[lp].content[i].val.t = "rel" /\ ~disk[lp].content[i].removed)
                        => FileOf(Resolve(dirname(lp), disk[lp].content[i].val.rel)) \in DOMAIN disk

TasksOfPage(u) == {t \in 1..ntasks : thr[t].page = u}

\* C6: while the HTML file of a page is opened and written, every asset task
\* that was dispatched for the page has completed and its result is the value
\* of the element that referenced it.
C6_PageWrittenAfterJoin ==
    pc \in {"pg_open", "pg_write"} =>
        \A t \in TasksOfPage(cur) :
            /\ thr[t].pc = "done"
            /\ dom[thr[t].elem].val = thr[t].res

\* a page that carried a preload link and dispatched asset tasks is written
C6_Witness ==
    /\ pc = "pg_write"
    /\ TasksOfPage(cur) # {}
    /\ \E i \in 1..Len(dom) : dom[i].kind = "preload"

\* C7: an element whose asset download failed or was rejected by the filter
\* keeps, in the persisted page, the reference exactly as the source had it.
C7_FailedAssetKeepsOriginal ==
    \A lp \in DOMAIN disk :
        (disk[lp].kind = "page" /\ disk[lp].full) =>
            \A i \in 1..Len(disk[lp].content) :
                disk[lp].content[i].st = "failed"
                    => disk[lp].content[i].val = UrlVal(disk[lp].content[i].ref)

\* C8: an asset that the filter rejected is not written to disk, is not in the
\* asset registry and has no entry in the incremental state.
C8_RejectedAssetLeavesNoTrace ==
    \A e \in DOMAIN events :
        e.ev = "reject" =>
            /\ e.url \notin DOMAIN downloaded_assets
            /\ e.url \notin DOMAIN state_data
            /\ e.url \notin DOMAIN state_file
            /\ \A lp \in DOMAIN disk : disk[lp].url # e.url
            /\ \A r \in 1..MaxRuns : BodyWritesOf(e.url, r) = 0

\* a run has ended in which the filter rejected an asset of a persisted page
C8_Witness ==
    /\ pc = "done"
    /\ \E e \in DOMAIN events : e.ev = "reject" /\ e.run = run
    /\ \E e \in DOMAIN events : e.ev = "page_write" /\ e.run = run

\* C9: a URL is treated as up to date after a 304 only while the file of its
\* IncrementalEntry exists; otherwise a second, unconditional GET follows.
\* (An up_to_date event carries in cond whether the recorded file was there.)
C9_NotModifiedNeedsFile ==
    \A e \in DOMAIN events : e.ev = "up_to_date" => e.cond

\* the origin is unchanged: the first run got every resource that is served,
\* the second run was answered 304 for each of them, and no file was deleted
UnchangedOrigin ==
    /\ \E e \in DOMAIN events : e.ev = "served_ok" /\ e.run = 1 /\ e.cond
    /\ \A e \in Requests(2) : Served(site, e.url) # {} => e.status = 304
    /\ \A e \in DOMAIN events : e.ev \notin {"deleted", "damaged"}

CountOf(kind, r) == {e.status : e \in {x \in DOMAIN events : x.ev = kind /\ x.run = r}}

\* C10: a second run against an unchanged origin ends with the page count and
\* the asset count of the first run and writes no page or asset body.
C10_SecondRunIdempotent ==
    (run = 2 /\ pc = "done" /\ incremental /\ UnchangedOrigin) =>
        /\ CountOf("pages", 2) = CountOf("pages", 1)
        /\ CountOf("assets", 2) = CountOf("assets", 1)
        /\ \A e \in DOMAIN events : e.run = 2 => e.ev \notin {"body_write", "page_write"}

SavePcs == {"save_open", "save_dump", "save_replace"}

\* C11: while _save_state runs, and after a crash at any of its steps,
\* state.json is either exactly as it was before the save began or holds the
\* complete new map; it is never a partially written file.
C11_StateFileOldOrNew ==
    pc \in SavePcs \cup {"crashed"} =>
        \/ state_meta.target = state_meta.old_target /\ state_file = state_meta.old_file
        \/ state_meta.target = "complete" /\ state_file = state_data

\* the process died while the temp file was half written, in a cycle whose
\* new map differs from the complete map of the cycle before
C11_Witness ==
    /\ pc = "crashed"
    /\ state_meta.tmp = "partial"
    /\ state_meta.target = "complete"
    /\ state_file # state_data

\* C12 as stated: in a run that found state.json missing or unreadable, no
\* request carries conditional headers.
C12_NoConditionalHeaders ==
    ~state_meta.loaded =>
        \A e \in DOMAIN events :
            (e.ev \in {"page_get", "asset_get"} /\ e.run = run) => ~e.cond

\* C12 amended: in a run that found state.json missing or unreadable, the
\* incremental-state map holds only entries written by this run, and a request
\* carries conditional headers only for a URL that has such an entry.
C12_OnlyEntriesOfThisRun ==
    ~state_meta.loaded =>
        /\ \A u \in DOMAIN state_data : state_data[u].timestamp = run
        /\ \A e \in DOMAIN events :
              (e.ev \in {"page_get", "asset_get"} /\ e.run = run /\ e.cond)
                  => e.url \in DOMAIN state_data

\* a second cycle found state.json removed or unreadable and went on to write
\* a page
C12_Witness ==
    /\ run = 2
    /\ pc = "done"
    /\ incremental
    /\ ~state_meta.loaded
    /\ \E e \in DOMAIN events : e.ev = "damaged"
    /\ \E e \in DOMAIN events : e.ev = "page_write" /\ e.run = 2

\* C13: once a KeyboardInterrupt has ended the crawl loop, state.json holds
\* the incremental-state map of the run.
C13_InterruptFlushesState ==
    (pc = "interrupted" /\ incremental) => _load_state = state_data

C15_RunReachesEnd ==
    (pc = "loop") ~> (pc \in {"save_open", "shutdown", "interrupted"})

UnusableRobots == {"error", "non200", "html", "json"}

\* C16: when the fetch of robots.txt raised, returned a status other than 200
\* or returned HTML or JSON, can_fetch is true of every URL and no URL is
\* skipped in the run.
C16_UnusableRobotsAllowsAll ==
    (respect_robots /\ robots.outcome \in UnusableRobots) =>
        /\ \A p \in DOMAIN site.pages : can_fetch(robots, Url(domain, p, NoQuery, ""))
        /\ skipped_urls = <<>>
        /\ \A e \in DOMAIN events : e.ev = "robots_skip" => e.run # run

\* robots.txt could not be used and the page that its rules would have
\* disallowed was fetched
C16_Witness ==
    /\ respect_robots
    /\ robots.outcome \in UnusableRobots
    /\ \E e \in DOMAIN events :
          e.ev = "page_get" /\ e.run = run /\ ServerPath(e.url) \in site.disallowed

\* C17: with robots compliance on, no page GET is issued for a URL that
\* can_fetch denies; each such URL dequeued is recorded in skipped_urls, and
\* request_count counts the calls of process_page only.
C17_DisallowedUrlIsSkipped ==
    /\ \A e \in DOMAIN events :
          (e.ev = "page_get" /\ e.run = run /\ respect_robots) => can_fetch(robots, e.url)
    /\ \A e \in DOMAIN events :
          (e.ev = "robots_skip" /\ e.run = run) =>
              /\ \E i \in 1..Len(skipped_urls) : skipped_urls[i] = e.url
              /\ Count(LAMBDA x : x.ev = "page_get" /\ x.run = run /\ x.url = e.url) = 0
    /\ Len(skipped_urls) = Count(LAMBDA x : x.ev = "robots_skip" /\ x.run = run)
    /\ request_count = Count(LAMBDA x : x.ev \in {"page_get", "visited_skip"} /\ x.run = run)

\* a run ended in which a disallowed URL was dequeued and skipped while other
\* pages were processed
C17_Witness ==
    /\ pc = "done"
    /\ skipped_urls # <<>>
    /\ request_count >= 2
    /\ \E e \in DOMAIN events : e.ev = "robots_skip" /\ e.run = run

\* C18: every URL in pages_to_visit has the authority of the target domain.
C18_QueuedUrlsHaveTargetAuthority ==
    \A i \in 1..Len(pages_to_visit) : pages_to_visit[i].host = domain

FailedGetsOf(u, r) == Count(LAMBDA x : x.ev = "asset_get" /\ x.run = r /\ x.url = u /\ x.status = 0)
CallsOf(u, r) == Count(LAMBDA x : x.ev = "df_call" /\ x.run = r /\ x.url = u)

C20_RegisteredFileIsComplete ==
    \A u \in DOMAIN downloaded_assets :
        /\ downloaded_assets[u] \in DOMAIN disk
        /\ disk[downloaded_assets[u]].full

\* C27: pages_to_visit is a FIFO queue: a step that changes it either takes
\* its oldest entry or appends entries at its tail (a new download cycle
\* starts with an empty queue), so a link found on page P is dequeued after
\* every URL that was queued when P was dequeued.
C27_QueueIsFifo ==
    [][\/ pages_to_visit # <<>> /\ pages_to_visit' = Tail(pages_to_visit)
       \/ /\ Len(pages_to_visit') >= Len(pages_to_visit)
          /\ SubSeq(pages_to_visit', 1, Len(pages_to_visit)) = pages_to_visit
       \/ run' # run /\ pages_to_visit' = <<>>]_vars

\* a link found on /b was fetched after the second queue entry for /b, which
\* was already queued when /b was dequeued, had been dequeued and dropped
C27_Witness ==
    /\ \E e \in DOMAIN events : e.ev = "visited_skip" /\ e.url.path = PB
    /\ \E e \in DOMAIN events : e.ev = "page_get" /\ HasNextImage(e.url.path)

\* C28: no thread waits for asset_lock while it holds asset_lock itself.
C28_NoAcquireWhileHolding ==
    \A th \in Threads : ~(thr[th].pc = "blocked" /\ asset_lock = th)

\* (history) a request of the current cycle met a transport error or an error status
SomeRequestFailed == \E e \in Requests(run) : e.status = 0

\* C29: when the origin answers every request, the crawl loop empties the
\* queue and download() returns, unless the user interrupts the run.
C29_CrawlTerminates ==
    <>(SomeRequestFailed \/ pc \in {"done", "interrupted", "crashed"})

\* the least sleep the pacing rule asks for: the larger of --delay and the
\* Crawl-delay of a robots.txt that was loaded
MinDelay == IF respect_robots /\ robots.crawl_delay > 0 THEN Max(delay, robots.crawl_delay) ELSE delay

PageGets(r) == Count(LAMBDA x : x.ev = "page_get" /\ x.run = r)

\* C24: when the control thread is at the head of the crawl loop after a page
\* GET of this run, it has slept since that GET for at least the larger of
\* the configured delay and the robots crawl delay; and no sleep lies between
\* a page GET and the asset fetches that the processing of the page starts.
C24_SleepBetweenPageFetches ==
    /\ (pc = "loop" /\ PageGets(run) > 0) => (last_sleep # None /\ last_sleep >= MinDelay)
    /\ pc \in {"dispatch", "sync_wait", "join", "style", "style_wait", "pg_open", "pg_write"}
           => last_sleep = None

\* two pages were fetched in a run whose robots.txt asks for a longer delay
\* than --delay, and the control thread is back at the head of the loop
C24_Witness ==
    /\ PageGets(run) >= 2
    /\ respect_robots
    /\ robots.crawl_delay > delay
    /\ pc = "loop"

InDownload == {th \in Threads : thr[th].pc \in DownloadSteps}

\* C21: the attempts that compete for a canonical asset URL agree on its
\* local path: a thread that is downloading a URL will register the path that
\* the registry already holds for it, and two threads downloading the same URL
\* write to the same path, so the path finally stored does not depend on which
\* of them registers last.
C21_AttemptsAgreeOnPath ==
    /\ \A th \in InDownload :
          thr[th].url \in DOMAIN downloaded_assets => downloaded_assets[thr[th].url] = thr[th].lpath
    /\ \A t1, t2 \in InDownload : thr[t1].url = thr[t2].url => thr[t1].lpath = thr[t2].lpath

\* C23 as stated: at most worker_count threads are inside download_file at
\* any moment.
C23_DownloadsWithinWorkerCount ==
    Cardinality(InDownload) <= worker_count

\* C23 amended: at most worker_count tasks of the pool run at any moment; the
\* control thread may perform one download of its own beside them, so at most
\* worker_count + 1 threads are inside download_file.
C23_PoolWithinWorkerCount ==
    /\ worker_count >= 1
    /\ Cardinality(Running) <= worker_count
    /\ Cardinality(InDownload) <= worker_count + 1

\* every worker of the pool is busy while a submitted task waits for one
C23_Witness ==
    /\ Cardinality(Running) = worker_count
    /\ \E t \in 1..ntasks : thr[t].pc = "queued"

\* C30: when the control thread is about to dequeue the next URL, every asset
\* task submitted for an earlier page has completed.
C30_NoTaskLeftAtDequeue ==
    (pc = "loop" /\ pages_to_visit # <<>>) => \A t \in 1..ntasks : thr[t].pc = "done"

\* (history) the body of url was downloaded and written in cycle r
Retrieved(u, r) == BodyWritesOf(u, r) > 0

\* C26: when the run has ended, in every stylesheet that process_css_file
\* rewrote, each same-origin url() reference to a font that was retrieved in
\* the run is a base64 data: URI.
C26_FontsAreInlined ==
    pc = "done" =>
        \A lp \in DOMAIN disk :
            (disk[lp].kind = "css" /\ disk[lp].full) =>
                \A i \in 1..Len(disk[lp].content) :
                    LET full == normalize_url(disk[lp].content[i].ref, disk[lp].url) IN
                    (/\ is_same_domain(full)
                     /\ full.path.ext \in FontExts
                     /\ Retrieved(full, run))
                        => disk[lp].content[i].val = DataVal(mime(full.path.ext), full)

\* (history) the accesses of the shared structures in this cycle
Accesses == {e \in DOMAIN events :
                e.run = run /\ e.ev \in {"visited_urls.read", "visited_urls.write",
                                         "downloaded_assets.read", "downloaded_assets.write",
                                         "state_data.read", "state_data.write"}}

\* C22: every read and every write of the visited set, of the asset registry
\* and of the incremental-state map happens while the accessing thread holds
\* the lock of that structure.
C22_AccessesHoldTheLock == \A e \in Accesses : e.cond

\* ------------------------------------- get_relative_path_from_cache alone
\* The function is applied to one registered asset and two pages drawn from
\* bounded sets of directories; thread 1 and thread 2 each compute the
\* reference of one page.
RelDirs == {<<>>, <<"a">>, <<"b">>, <<"a", "a">>, <<"a", "b">>}

\* a page saved as <dir>/p.html and a page saved as <dir>/index.html
RelPages ==
    {Url(domain, Path(d \o <<"p">>, "", FALSE), NoQuery, "") : d \in RelDirs}
        \cup {Url(domain, Path(d, "", TRUE), NoQuery, "") : d \in RelDirs}

RelAssets == {Url(domain, Path(d \o <<"i">>, ".png", FALSE), NoQuery, "") : d \in RelDirs}

RelInit ==
    /\ \E s \in {Scenario(PictureSite, NoFilter, 1, FALSE)} :
          /\ site = s.site
          /\ asset_filter = s.asset_filter
          /\ worker_count = s.worker_count
          /\ incremental = s.incremental
          /\ respect_robots = s.respect_robots
          /\ fs_faults = s.fs_faults
          /\ scheduled = s.scheduled
          /\ delay = s.delay
          /\ base_delay = s.delay
    /\ robots = NewRobots
    /\ run = 1
    /\ pc = "dispatch"
    /\ cur = base_url
    /\ response = ErrorResponse
    /\ dom = <<>>
    /\ work = <<>>
    /\ asset_tasks = <<>>
    /\ ji = 0
    /\ orig_i = 1
    /\ pages_to_visit = <<>>
    /\ visited_urls = {}
    /\ request_count = 0
    /\ skipped_urls = <<>>
    /\ last_sleep = None
    /\ asset_lock = Free
    /\ state_data = Empty
    /\ state_file = Empty
    /\ state_meta = NoStore
    /\ disk = Empty
    /\ ntasks = 2
    /\ events = EmptyBag
    /\ \E asset \in RelAssets, p1, p2 \in RelPages :
          /\ downloaded_assets = Put(Empty, asset, get_local_path(asset))
          /\ thr = [t \in Threads |->
                       IF t \in {1, 2}
                       THEN [IdleThread EXCEPT !.pc = "ret", !.mode = "rel", !.url = asset,
                                               !.page = IF t = 1 THEN p1 ELSE p2]
                       ELSE IdleThread]

\* return self.get_relative_path_from_cache(full_url, current_page_url)
R_Reference(th) ==
    /\ thr[th].pc = "ret"
    /\ thr[th].mode = "rel"
    /\ asset_lock = Free
    /\ thr' = [thr EXCEPT ![th].pc = "done",
                          ![th].res = get_relative_path_from_cache(downloaded_assets, thr[th].url,
                                                                   thr[th].page)]
    /\ UNCHANGED <<cfgv, mainv, frontier, downloaded_assets, asset_lock, state_data, store, disk,
                   ntasks, events>>

RelNext == \E th \in {1, 2} : R_Reference(th)

RelSpec == RelInit /\ [][RelNext]_vars

\* the local directory of the page that thread th computes a reference for
PageDir(th) == dirname(get_local_path(thr[th].page))

BothReferenced ==
    /\ thr[1].mode = "rel" /\ thr[1].pc = "done"
    /\ thr[2].mode = "rel" /\ thr[2].pc = "done"

\* C25 (amended): for an asset registered once and two pages, the reference
\* returned for each page, resolved in that page's local directory, is the
\* registered local path of the asset; for pages in different directories
\* the two references are equal exactly when the two directories have the
\* same depth and share equally many leading components with the asset's
\* path, and differ otherwise.
C25_ReferencesResolve ==
    /\ \A th \in {1, 2} :
          (thr[th].mode = "rel" /\ thr[th].pc = "done") =>
              /\ thr[th].res.t = "rel"
              /\ FileOf(Resolve(PageDir(th), thr[th].res.rel)) = downloaded_assets[thr[th].url]
    /\ (BothReferenced /\ PageDir(1) # PageDir(2)) =>
          LET t == Comps(downloaded_assets[thr[1].url]) IN
          (thr[1].res = thr[2].res)
              <=> /\ Len(PageDir(1)) = Len(PageDir(2))
                  /\ CommonLen(t, PageDir(1)) = CommonLen(t, PageDir(2))

\* C25 (witness): two pages in different directories got different
\* references to an asset that lies in neither directory
C25_Witness ==
    /\ BothReferenced
    /\ PageDir(1) # PageDir(2)
    /\ thr[1].res # thr[2].res
    /\ thr[1].res.rel.up > 0 /\ thr[2].res.rel.up > 0

\* C25 (as stated): the references returned for two pages in different
\* directories differ.
C25_ReferencesDiffer ==
    (BothReferenced /\ PageDir(1) # PageDir(2)) => thr[1].res # thr[2].res

\* ----------------------------- AssetFilter.allows and get_local_path alone
\* Thread 1 applies allows to a URL and a category under a filter, thread 2
\* applies get_local_path to a URL; filter, category and URLs are drawn from
\* bounded sets.
FnFilters ==
    {AssetFilter(it, et, ip, ep, None, None) :
        it \in {{}, {"CSS"}}, et \in {{}, {"image"}}, ip \in {{}, {"cdn"}}, ep \in {{}, {".png"}}}

FnCategories == {"css", "CSS", "image", "other", ""}

FnAssetUrls ==
    {Url(domain, Path(d \o <<n>>, e, FALSE), NoQuery, "") :
        d \in {<<>>, <<"cdn">>}, n \in {"i"}, e \in {".png", ".css"}}

\* the paths after unquote(parsed.path): ".." is a segment written %2e%2e,
\* which urljoin does not remove
FnPageUrls ==
    {Url(domain, p, NoQuery, "") :
        p \in {PEmpty, PRoot, Path(<<"a">>, "", FALSE), Path(<<"a">>, "", TRUE),
               Path(<<"a", "b">>, "", FALSE), Path(<<"a">>, ".html", FALSE),
               Path(<<"d", "j">>, ".png", FALSE), Path(<<"..", "x">>, ".txt", FALSE),
               Path(<<"a", "..", "..", "x">>, "", FALSE), PNext}}
        \cup {Url(domain, PNext, ImageQuery(PAvatar, w), "") : w \in {"", "640"}}

FnInit ==
    /\ \E s \in {Scenario(PictureSite, NoFilter, 1, FALSE)} :
          /\ site = s.site
          /\ worker_count = s.worker_count
          /\ incremental = s.incremental
          /\ respect_robots = s.respect_robots
          /\ fs_faults = s.fs_faults
          /\ scheduled = s.scheduled
          /\ delay = s.delay
          /\ base_delay = s.delay
    /\ robots = NewRobots
    /\ run = 1
    /\ pc = "dispatch"
    /\ cur = base_url
    /\ response = ErrorResponse
    /\ dom = <<>>
    /\ work = <<>>
    /\ asset_tasks = <<>>
    /\ ji = 0
    /\ orig_i = 1
    /\ pages_to_visit = <<>>
    /\ visited_urls = {}
    /\ request_count = 0
    /\ skipped_urls = <<>>
    /\ last_sleep = None
    /\ downloaded_assets = Empty
    /\ asset_lock = Free
    /\ state_data = Empty
    /\ state_file = Empty
    /\ state_meta = NoStore
    /\ disk = Empty
    /\ ntasks = 2
    /\ events = EmptyBag
    /\ asset_filter \in FnFilters
    /\ \E u \in FnAssetUrls, c \in FnCategories, p \in FnPageUrls :
          thr = [t \in Threads |->
                    IF t = 1 THEN [IdleThread EXCEPT !.pc = "ret", !.mode = "allows", !.url = u,
                                                     !.ctype = c]
                    ELSE IF t = 2 THEN [IdleThread EXCEPT !.pc = "ret", !.mode = "path", !.url = p]
                    ELSE IdleThread]

\* self.asset_filter.allows(url, category)
F_Allows ==
    /\ thr[1].pc = "ret"
    /\ thr[1].mode = "allows"
    /\ thr' = [thr EXCEPT ![1].pc = "done",
                          ![1].ok = allows(asset_filter, thr[1].url, thr[1].ctype)]
    /\ UNCHANGED <<cfgv, mainv, frontier, downloaded_assets, asset_lock, state_data, store, disk,
                   ntasks, events>>

\* self.get_local_path(url)
F_LocalPath ==
    /\ thr[2].pc = "ret"
    /\ thr[2].mode = "path"
    /\ thr' = [thr EXCEPT ![2].pc = "done", ![2].lpath = get_local_path(thr[2].url)]
    /\ UNCHANGED <<cfgv, mainv, frontier, downloaded_assets, asset_lock, state_data, store, disk,
                   ntasks, events>>

FnNext == F_Allows \/ F_LocalPath

FnSpec == FnInit /\ [][FnNext]_vars

Allowed == thr[1].mode = "allows" /\ thr[1].pc = "done"

\* C38: allows(url, category) is false exactly when an include-type set is
\* configured and does not contain the category, or the category is in the
\* exclude-type set, or some exclude pattern matches the url, or include
\* patterns are configured and none matches the url. The category is taken
\* as allows reads it: lower-cased, a missing one as 'other'.
C38_AllowsExactly ==
    Allowed =>
        LET f == asset_filter
            url == thr[1].url
            cat == Cat(thr[1].ctype)
        IN (~thr[1].ok) <=>
              \/ f.include_types # {} /\ cat \notin f.include_types
              \/ cat \in f.exclude_types
              \/ \E p \in f.exclude_patterns : search(p, url)
              \/ f.include_patterns # {} /\ \A p \in f.include_patterns : ~search(p, url)

\* C38 (witness): a URL that passes the type sets and the exclude patterns
\* is rejected because include patterns are configured and none matches
C38_Witness ==
    /\ Allowed
    /\ ~thr[1].ok
    /\ asset_filter.include_patterns # {}
    /\ asset_filter.include_types # {} /\ Cat(thr[1].ctype) \in asset_filter.include_types
    /\ Cat(thr[1].ctype) \notin asset_filter.exclude_types
    /\ \A p \in asset_filter.exclude_patterns : ~search(p, thr[1].url)

\* the path stays inside the output root: no prefix of it climbs above it
UnderRoot(lp) ==
    /\ lp # NoneLP
    /\ \A k \in 1..Len(lp.segs) :
          2 * Cardinality({i \in 1..k : lp.segs[i] = ".."}) <= k

\* C39: get_local_path maps the root path to index.html, a path without
\* extension that ends in '/' to that path plus index.html, any other path
\* without extension to that path plus .html, and a path with an extension
\* to the same path, always under the output root.
C39_LocalPathMapping ==
    (thr[2].mode = "path" /\ thr[2].pc = "done") =>
        LET p == thr[2].url.path
            lp == thr[2].lpath
        IN /\ Len(p.segs) = 0 => lp = LPath(<<"index">>, ".html")
           /\ (Len(p.segs) > 0 /\ p.ext = "" /\ p.slash) => lp = LPath(p.segs \o <<"index">>, ".html")
           /\ (Len(p.segs) > 0 /\ p.ext = "" /\ ~p.slash) => lp = LPath(p.segs, ".html")
           /\ p.ext # "" => lp = LPath(p.segs, p.ext)
           /\ UnderRoot(lp)

\* (history) the pages written in cycle r
PagesWritten(r) == {e.url : e \in {x \in DOMAIN events : x.ev = "page_write" /\ x.run = r}}

\* C35: two distinct canonical page URLs that are both visited and persisted
\* in a run are never written to the same local file.
C35_NoTwoPagesShareAFile ==
    \A u1, u2 \in PagesWritten(run) :
        compare_url(u1) # compare_url(u2) => get_local_path(u1) # get_local_path(u2)

\* (history) the pages of cycle r that were answered 200 with a document
\* holding a reference that cannot be parsed
FetchedWithBadRef(r) ==
    {e.url : e \in {x \in DOMAIN events :
                      /\ x.ev = "page_get" /\ x.run = r /\ x.status = 200
                      /\ ServerPath(x.url) \in DOMAIN site.pages
                      /\ \E i \in 1..Len(site.pages[ServerPath(x.url)]) :
                            Unparsable(site.pages[ServerPath(x.url)][i].ref)}}

\* C36: a reference that cannot be parsed is skipped and nothing more: when
\* the run has ended, every fetched page that holds such a reference is
\* persisted.
C36_BadReferenceOnlySkipped ==
    (pc = "done" /\ \A e \in DOMAIN events : e.ev \notin {"deleted", "damaged"}) =>
        \A u \in FetchedWithBadRef(run) :
            /\ get_local_path(u) \in DOMAIN disk
            /\ disk[get_local_path(u)].kind = "page"
            /\ disk[get_local_path(u)].full

\* (history) the calls of scan_content for url in cycle r
ScansOf(u, r) == Count(LAMBDA x : x.ev = "scan" /\ x.run = r /\ x.url = u)

\* (history) the URLs whose body was written by download_file in cycle r
BodiesWritten(r) == {e.url : e \in {x \in DOMAIN events : x.ev = "body_write" /\ x.run = r}}

\* (history) the page URLs answered 200 in cycle r
PagesFetched(r) ==
    {e.url : e \in {x \in DOMAIN events : x.ev = "page_get" /\ x.run = r /\ x.status = 200}}

HtmlFetches(u, r) ==
    Count(LAMBDA x : x.ev = "page_get" /\ x.run = r /\ x.url = u /\ x.status = 200)

\* C37: with a scanner attached, scan_content is called once for every
\* fetched HTML page body and once for every downloaded script, stylesheet
\* and document asset body.
C37_ScannerSeesEveryBody ==
    /\ \A u \in PagesFetched(run) :
          ServerPath(u) \in DOMAIN site.pages => ScansOf(u, run) = HtmlFetches(u, run)
    /\ \A u \in BodiesWritten(run) :
          get_asset_category(u, "") \in {"js", "css", "doc"}
              => ScansOf(u, run) = BodyWritesOf(u, run)

\* (history) a page fetch that this step made and that was answered 304, or
\* 200 for a URL at which the origin serves no document
SkippedFetch(e) ==
    /\ e.ev = "page_get"
    /\ e.run = run
    /\ e \in DOMAIN events'
    /\ events'[e] > (IF e \in DOMAIN events THEN events[e] ELSE 0)
    /\ \/ e.status = 304
       \/ e.status = 200 /\ ServerPath(e.url) \notin DOMAIN site.pages

WrittenIn(u, r) == u \in PagesWritten(r) \/ u \in BodiesWritten(r)

\* C33: _update_state records an entry for a URL only when the file of that
\* URL has been written in full in this cycle and is at the entry's
\* local_path; a page that fails before it is written gets no entry.
C33_EntryOnlyAfterWrite ==
    [][run' = run =>
          \A u \in DOMAIN state_data' :
              (u \notin DOMAIN state_data \/ state_data'[u] # state_data[u]) =>
                  /\ \E e \in DOMAIN events' :
                        e.ev \in {"page_write", "body_write"} /\ e.run = run /\ e.url = u
                  /\ state_data'[u].local_path \in DOMAIN disk']_vars

\* C33 (witness): an incremental cycle in which an asset and a page got
\* their entries and a page that failed while it was processed has none
C33_Witness ==
    /\ incremental
    /\ \E u \in DOMAIN state_data : state_data[u].timestamp = run /\ WrittenIn(u, run)
    /\ \E e \in DOMAIN events :
          /\ e.ev = "page_error" /\ e.run = run
          /\ ~WrittenIn(e.url, run)
          /\ e.url \notin DOMAIN state_data

\* C31: when two tasks have downloaded and expanded the same stylesheet, the
\* stylesheet on disk at the end of the run is the complete rewritten text:
\* not truncated, and with every same-origin reference that was retrieved
\* expanded.
C31_RacedStylesheetIsComplete ==
    pc = "done" =>
        \A lp \in DOMAIN disk :
            (lp.ext = ".css" /\ BodyWritesOf(disk[lp].url, run) >= 2) =>
                /\ disk[lp].full
                /\ disk[lp].kind = "css"
                /\ Len(disk[lp].content) = Len(Sheet(site, disk[lp].url))
                /\ \A i \in 1..Len(disk[lp].content) :
                      LET full == normalize_url(disk[lp].content[i].ref, disk[lp].url) IN
                      (is_same_domain(full) /\ Retrieved(full, run))
                          => disk[lp].content[i].val.t # "url"

\* C34: after a stylesheet has been processed, every same-origin url()
\* reference in it whose target is in the asset registry and that is not a
\* data: URI is the relative path from the directory of the stylesheet to
\* the registered file.
C34_ReferencesAreRelative ==
    pc = "done" =>
        \A lp \in DOMAIN disk :
            (disk[lp].kind = "css" /\ disk[lp].full) =>
                \A i \in 1..Len(disk[lp].content) :
                    LET full == normalize_url(disk[lp].content[i].ref, disk[lp].url)
                        val == disk[lp].content[i].val
                    IN (/\ is_same_domain(full)
                        /\ full \in DOMAIN downloaded_assets
                        /\ val # DataVal(mime(full.path.ext), full))
                           => val = RelVal(relpath(downloaded_assets[full], dirname(lp)))

====
